--------------------------- MODULE ContentProofs ---------------------------
(***************************************************************************)
(* What holds of Content for every set of posts, handlers, assets, uploads *)
(* and images, and for every limit on uploads.                             *)
(***************************************************************************)
EXTENDS Content, FiniteSetTheorems, TLAPS

-----------------------------------------------------------------------------
(* The inductive invariant *)

Asset  == [status : {"ABSENT", "pending", "uploading", "ready", "failed"},
           sha : Images \cup {none}, old : BOOLEAN, archived : BOOLEAN]
Upload == [pc : {"idle", "enter", "receive", "put", "commit", "unstored", "uncommitted"},
           a : Assets \cup {none}, image : Images \cup {none}]

Typed ==
  /\ asset \in [Assets -> Asset]
  /\ object \in [Assets -> Images \cup {none}]
  /\ up \in [Uploads -> Upload]
  /\ uploads \in Int
  /\ \A u \in Uploads : up[u].pc # "idle" => up[u].a \in Assets /\ up[u].image \in Images

(* An upload that has claimed its row. *)
Storing(u) == up[u].pc \in {"put", "commit", "unstored", "uncommitted"}

(* What it knows of the row and of the storage, until it ends. *)
Stored(u) ==
  /\ up[u].pc \in {"put", "commit"} => Where(up[u].a, "uploading")
  /\ up[u].pc = "commit" => object[up[u].a] = up[u].image
  /\ up[u].pc \in {"unstored", "uncommitted"} => asset[up[u].a].status \in {"uploading", "ready"}

(* A row is claimed by one upload. *)
OneStores ==
  \A u, v \in Uploads : Storing(u) /\ Storing(v) /\ up[u].a = up[v].a => u = v

LibraryInv ==
  /\ Typed /\ OneStores /\ ReadyIsIntact
  /\ \A u \in Uploads : Stored(u)

Busy == {u \in Uploads : up[u].pc \notin {"idle", "enter"}}

-----------------------------------------------------------------------------
(* Steps of the library *)

(* A step of an upload changes its own record and, if any, the row and the
   object of its asset. *)
LEMMA ReachedType ==
  ASSUME Typed, NEW u \in Uploads,
         NEW pc \in {"idle", "enter", "receive", "put", "commit", "unstored", "uncommitted"},
         up[u].a \in Assets, up[u].image \in Images, Reached(u, pc)
  PROVE  /\ up' \in [Uploads -> Upload]
         /\ up'[u].pc = pc /\ up'[u].a = up[u].a /\ up'[u].image = up[u].image
         /\ \A v \in Uploads \ {u} : up'[v] = up[v]
         /\ \A v \in Uploads : up'[v].pc # "idle" => up'[v].a \in Assets /\ up'[v].image \in Images
BY DEF Typed, Reached, Upload

(* A step that keeps rows and objects, and starts no upload that stores. *)
LEMMA RowsKept ==
  ASSUME LibraryInv, Typed', UNCHANGED <<asset, object>>,
         \A u \in Uploads : Storing(u)' => up'[u] = up[u]
  PROVE  LibraryInv'
BY DEF LibraryInv, OneStores, ReadyIsIntact, Intact, Stored, Storing, Where

LEMMA UploadStep ==
  ASSUME LibraryInv, NEW u \in Uploads,
         UploadEnter(u) \/ Claim(u) \/ Reject(u) \/ Put(u) \/ Commit(u)
           \/ FailPut(u) \/ FailCommit(u)
  PROVE  LibraryInv'
<1> USE DEF LibraryInv
<1> DEFINE a == up[u].a
<1>1. CASE UploadEnter(u)
  <2>1. up[u].a \in Assets /\ up[u].image \in Images
    BY <1>1 DEF UploadEnter, Typed
  <2>2. PICK pc \in {"idle", "receive"} : Reached(u, pc)
    BY <1>1 DEF UploadEnter
  <2>3. Typed'
    BY <1>1, <2>1, <2>2, ReachedType DEF Typed, UploadEnter
  <2> QED
    BY <1>1, <2>1, <2>2, <2>3, ReachedType, RowsKept DEF UploadEnter, Storing
<1>2. CASE Claim(u)
  <2>1. up[u].a \in Assets /\ up[u].image \in Images
    BY <1>2 DEF Claim, Typed
  <2>2. CASE Leave(u) /\ UNCHANGED asset
    <3>1. Typed'
      BY <1>2, <2>1, <2>2, ReachedType DEF Typed, Claim, Leave
    <3> QED
      BY <1>2, <2>1, <2>2, <3>1, ReachedType, RowsKept DEF Claim, Leave, Storing
  <2>3. CASE /\ Where(a, "pending") /\ Reached(u, "put") /\ UNCHANGED uploads
             /\ asset' = [asset EXCEPT ![a].status = "uploading"]
    <3>1. /\ asset' \in [Assets -> Asset]
          /\ asset'[a].status = "uploading"
          /\ \A b \in Assets \ {a} : asset'[b] = asset[b]
      BY <2>1, <2>3 DEF Typed, Asset
    <3>2. Typed'
      BY <1>2, <2>1, <2>3, <3>1, ReachedType DEF Typed, Claim
    <3>3. \A v \in Uploads : Storing(v) => up[v].a # a
      BY <2>1, <2>3 DEF Stored, Storing, Where
    <3> QED
      BY <1>2, <2>1, <2>3, <3>1, <3>2, <3>3, ReachedType
         DEF Claim, OneStores, ReadyIsIntact, Intact, Stored, Storing, Where, Typed
  <2> QED
    BY <1>2, <2>2, <2>3 DEF Claim
<1>3. CASE Reject(u)
  <2>1. up[u].a \in Assets /\ up[u].image \in Images
    BY <1>3 DEF Reject, Typed
  <2>2. Typed'
    BY <1>3, <2>1, ReachedType DEF Typed, Reject, Leave
  <2> QED
    BY <1>3, <2>1, <2>2, ReachedType, RowsKept DEF Reject, Leave, Storing
<1>4. CASE Put(u)
  <2>1. up[u].a \in Assets /\ up[u].image \in Images
    BY <1>4 DEF Put, Typed
  <2>2. PICK pc \in {"commit", "unstored"} :
          /\ Reached(u, pc)
          /\ \/ object' = [object EXCEPT ![a] = up[u].image]
             \/ pc = "unstored" /\ UNCHANGED object
    BY <1>4 DEF Put
  <2>3. /\ object' \in [Assets -> Images \cup {none}]
        /\ pc = "commit" => object'[a] = up[u].image
        /\ \A b \in Assets \ {a} : object'[b] = object[b]
    BY <2>1, <2>2 DEF Typed
  <2>4. Typed'
    BY <1>4, <2>1, <2>2, <2>3, ReachedType DEF Typed, Put
  <2> QED
    BY <1>4, <2>1, <2>2, <2>3, <2>4, ReachedType
       DEF Put, OneStores, ReadyIsIntact, Intact, Stored, Storing, Where, Typed
<1>5. CASE Commit(u)
  <2>1. up[u].a \in Assets /\ up[u].image \in Images
    BY <1>5 DEF Commit, Typed
  <2>2. PICK pc \in {"idle", "uncommitted"} : Reached(u, pc)
    BY <1>5 DEF Commit, Leave
  <2>3. CASE asset' = [asset EXCEPT ![a].status = "ready", ![a].sha = up[u].image]
    <3>1. /\ asset' \in [Assets -> Asset]
          /\ asset'[a].status = "ready" /\ asset'[a].sha = up[u].image
          /\ \A b \in Assets \ {a} : asset'[b] = asset[b]
      BY <2>1, <2>3 DEF Typed, Asset
    <3>2. Typed'
      BY <1>5, <2>1, <2>2, <3>1, ReachedType DEF Typed, Commit, Leave
    <3>3. object[a] = up[u].image /\ up[u].image # none
      BY <1>5, <2>1, ContentAssumption DEF Commit, Stored
    <3> QED
      BY <1>5, <2>1, <2>2, <3>1, <3>2, <3>3, ReachedType
         DEF Commit, OneStores, ReadyIsIntact, Intact, Stored, Storing, Where, Typed
  <2>4. CASE UNCHANGED asset
    <3>1. Typed'
      BY <1>5, <2>1, <2>2, <2>4, ReachedType DEF Typed, Commit, Leave
    <3> QED
      BY <1>5, <2>1, <2>2, <2>4, <3>1, ReachedType
         DEF Commit, OneStores, ReadyIsIntact, Intact, Stored, Storing, Where, Typed
  <2> QED
    BY <1>5, <2>3, <2>4 DEF Commit
<1>6. CASE FailPut(u) \/ FailCommit(u)
  <2>1. up[u].a \in Assets /\ up[u].image \in Images /\ Reached(u, "idle")
    BY <1>6 DEF FailPut, FailCommit, MarkFailed, Typed, Leave
  <2>2. CASE asset' = [asset EXCEPT ![a].status = "failed"]
    <3>1. /\ asset' \in [Assets -> Asset]
          /\ asset'[a].status = "failed"
          /\ \A b \in Assets \ {a} : asset'[b] = asset[b]
      BY <2>1, <2>2 DEF Typed, Asset
    <3>2. Typed'
      BY <1>6, <2>1, <3>1, ReachedType DEF Typed, FailPut, FailCommit, MarkFailed, Leave
    <3>3. \A v \in Uploads \ {u} : Storing(v) => up[v].a # a
      BY <1>6, <2>1 DEF FailPut, FailCommit, OneStores, Storing
    <3> QED
      BY <1>6, <2>1, <3>1, <3>2, <3>3, ReachedType
         DEF FailPut, FailCommit, MarkFailed, OneStores, ReadyIsIntact, Intact, Stored, Storing, Where, Typed
  <2>3. CASE UNCHANGED asset
    <3>1. Typed'
      BY <1>6, <2>1, <2>3, ReachedType DEF Typed, FailPut, FailCommit, MarkFailed, Leave
    <3> QED
      BY <1>6, <2>1, <2>3, <3>1, ReachedType, RowsKept DEF FailPut, FailCommit, MarkFailed, Storing
  <2> QED
    BY <1>6, <2>2, <2>3 DEF FailPut, FailCommit, MarkFailed
<1> QED
  BY <1>1, <1>2, <1>3, <1>4, <1>5, <1>6

(* The steps of nobody's upload: reservations, archives, checks and crashes. *)
LEMMA AssetStep ==
  ASSUME LibraryInv, NEW a \in Assets, Reserve(a) \/ Expire(a) \/ Archive(a)
  PROVE  LibraryInv'
<1>1. PICK row \in Asset :
        /\ asset' = [asset EXCEPT ![a] = row]
        /\ row.sha = asset[a].sha
        /\ row.status = asset[a].status \/ (Where(a, "ABSENT") /\ row.status = "pending")
  BY DEF LibraryInv, Typed, Asset, Reserve, Expire, Archive
<1>2. UNCHANGED <<object, uploads, up>>
  BY DEF Reserve, Expire, Archive
<1>3. asset'[a] = row /\ \A b \in Assets \ {a} : asset'[b] = asset[b]
  BY <1>1 DEF LibraryInv, Typed
<1>4. Typed'
  BY <1>1, <1>2 DEF LibraryInv, Typed
<1>5. \A u \in Uploads : Storing(u) /\ up[u].a = a => row.status = asset[a].status
  BY <1>1 DEF LibraryInv, Stored, Storing, Where
<1> QED
  BY <1>1, <1>2, <1>3, <1>4, <1>5
     DEF LibraryInv, OneStores, ReadyIsIntact, Intact, Stored, Storing, Where, Typed

LEMMA CheckStep ==
  ASSUME LibraryInv, NEW u \in Uploads, NEW a \in Assets, NEW image \in Images,
         UploadCheck(u, a, image)
  PROVE  LibraryInv'
<1>1. /\ up' = [up EXCEPT ![u] = [pc |-> "enter", a |-> a, image |-> image]]
      /\ UNCHANGED <<asset, object, uploads>>
  BY DEF UploadCheck
<1>2. Typed'
  BY <1>1 DEF LibraryInv, Typed, Upload
<1> QED
  BY <1>1, <1>2, RowsKept DEF LibraryInv, Typed, Storing

LEMMA CrashStep == ASSUME LibraryInv, Crash PROVE LibraryInv'
<1>1. Typed'
  BY DEF LibraryInv, Typed, Crash, Upload
<1>2. \A u \in Uploads : ~Storing(u)'
  BY DEF Crash, Storing, LibraryInv, Typed, Upload
<1> QED
  BY <1>1, <1>2, RowsKept DEF Crash

(* No image is offered that is not the one stored. *)
LEMMA LibraryInvariant == Spec => []LibraryInv
<1>1. Init => LibraryInv
  BY DEF Init, LibraryInv, Typed, Asset, Upload, OneStores, ReadyIsIntact, Intact, Stored,
         Storing, Where
<1>2. LibraryInv /\ [Next]_vars => LibraryInv'
  <2> SUFFICES ASSUME LibraryInv, [Next]_vars PROVE LibraryInv'
    OBVIOUS
  <2>1. CASE UNCHANGED media
    BY <2>1 DEF media, LibraryInv, Typed, OneStores, ReadyIsIntact, Intact, Stored, Storing, Where
  <2>2. CASE Review
    <3>1. UNCHANGED media
      BY <2>2 DEF Review, Create, CreateBatch, Import, CreateJob, EditRead, EditWrite,
                  DeleteRead, StatusRead, StatusWrite, DeleteWrite
    <3> QED
      BY <2>1, <3>1
  <2>3. CASE Library
    BY <2>3, AssetStep, CheckStep, UploadStep DEF Library
  <2> QED
    BY <2>1, <2>2, <2>3, CrashStep DEF Next, vars
<1> QED
  BY <1>1, <1>2, PTL DEF Spec

(* What the library offers can be served: whoever uploads to the same row, and
   whatever fails or stops between the storage and the database, the object of
   a ready image is the one its row describes. *)
THEOREM ServedIntact == Spec => []ReadyIsIntact
BY LibraryInvariant, PTL DEF LibraryInv

(* No step takes back an image that is offered, or changes its bytes: who
   claims, stores or marks failed finds the row pending or uploading. *)
THEOREM OfferedForGood == Spec => ReadyStays
<1> DEFINE Kept == \A a \in Assets : Where(a, "ready") =>
             /\ asset'[a].status = "ready" /\ asset'[a].sha = asset[a].sha
             /\ object'[a] = object[a]
<1>1. LibraryInv /\ [Next]_vars => [Kept]_vars
  <2> SUFFICES ASSUME LibraryInv, Next PROVE Kept
    OBVIOUS
  <2>1. ASSUME UNCHANGED <<asset, object>> PROVE Kept
    BY <2>1 DEF Where
  <2>2. CASE Review \/ Crash
    BY <2>1, <2>2 DEF Review, Create, CreateBatch, Import, CreateJob, EditRead, EditWrite,
                     DeleteRead, StatusRead, StatusWrite, DeleteWrite, Crash, media
  <2>3. ASSUME NEW a \in Assets, Reserve(a) \/ Expire(a) \/ Archive(a) PROVE Kept
    BY <2>3 DEF Reserve, Expire, Archive, Where, LibraryInv, Typed, Asset
  <2>4. ASSUME NEW u \in Uploads,
               \/ \E a \in Assets, image \in Images : UploadCheck(u, a, image)
               \/ UploadEnter(u) \/ Reject(u)
        PROVE  Kept
    BY <2>1, <2>4 DEF UploadCheck, UploadEnter, Reject
  <2>5. ASSUME NEW u \in Uploads,
               Claim(u) \/ Commit(u) \/ FailPut(u) \/ FailCommit(u)
        PROVE  Kept
    <3>1. up[u].a \in Assets
      BY <2>5 DEF Claim, Commit, FailPut, FailCommit, LibraryInv, Typed
    <3>2. UNCHANGED object
      BY <2>5 DEF Claim, Commit, FailPut, FailCommit, MarkFailed
    <3>3. UNCHANGED asset
          \/ /\ ~Where(up[u].a, "ready")
             /\ \A b \in Assets \ {up[u].a} : asset'[b] = asset[b]
      BY <2>5, <3>1 DEF Claim, Commit, FailPut, FailCommit, MarkFailed, Where, LibraryInv, Typed
    <3> QED
      BY <3>2, <3>3 DEF Where
  <2>6. ASSUME NEW u \in Uploads, Put(u) PROVE Kept
    <3>1. up[u].a \in Assets /\ Where(up[u].a, "uploading") /\ UNCHANGED asset
      BY <2>6 DEF Put, LibraryInv, Typed, Stored
    <3>2. \A b \in Assets \ {up[u].a} : object'[b] = object[b]
      BY <2>6, <3>1 DEF Put, LibraryInv, Typed
    <3> QED
      BY <3>1, <3>2 DEF Where
  <2> QED
    BY <2>2, <2>3, <2>4, <2>5, <2>6 DEF Next, Library
<1> QED
  BY <1>1, LibraryInvariant, PTL DEF Spec, ReadyStays

-----------------------------------------------------------------------------
(* The counter of uploads *)

LEMMA BusyFinite == IsFiniteSet(Busy) /\ Cardinality(Busy) \in Nat
<1>1. Busy \in SUBSET Uploads
  BY DEF Busy
<1>2. IsFiniteSet(Busy)
  BY <1>1, FS_Subset, ContentAssumption
<1> QED
  BY <1>2, FS_CardinalityType

(* An upload that leaves, wherever it stands, gives back its place and no
   other. *)
LEMMA LeaveCounted ==
  ASSUME Typed, UploadsCounted, NEW u \in Uploads, u \in Busy, Leave(u)
  PROVE  UploadsCounted'
<1>1. up[u].a \in Assets /\ up[u].image \in Images /\ Reached(u, "idle")
  BY DEF Typed, Busy, Leave
<1>2. Busy' = Busy \ {u}
  BY <1>1, ReachedType DEF Busy
<1>3. Cardinality(Busy') = Cardinality(Busy) - 1
  BY <1>2, BusyFinite, FS_RemoveElement
<1> QED
  BY <1>3, BusyFinite, ContentAssumption DEF UploadsCounted, Leave, Busy

LEMMA MoveCounted ==
  ASSUME Typed, UploadsCounted, NEW u \in Uploads, u \in Busy,
         NEW pc \in {"put", "commit", "unstored", "uncommitted"}, Reached(u, pc), UNCHANGED uploads
  PROVE  UploadsCounted'
<1>1. up[u].a \in Assets /\ up[u].image \in Images
  BY DEF Typed, Busy
<1>2. Busy' = Busy
  BY <1>1, ReachedType DEF Busy
<1> QED
  BY <1>2 DEF UploadsCounted, Busy

(* The counter is the number of uploads in progress, and never more than the
   limit: no error path keeps a place or gives one back twice. *)
THEOREM PlacesCounted == Spec => []UploadsCounted
<1>1. Init => UploadsCounted
  <2> SUFFICES ASSUME Init PROVE UploadsCounted
    OBVIOUS
  <2>1. Busy = {}
    BY DEF Init, Busy
  <2>2. Cardinality(Busy) = 0
    BY <2>1, FS_EmptySet
  <2> QED
    BY <2>2, ContentAssumption DEF Init, UploadsCounted, Busy
<1>2. LibraryInv /\ UploadsCounted /\ [Next]_vars => UploadsCounted'
  <2> SUFFICES ASSUME Typed, UploadsCounted, [Next]_vars PROVE UploadsCounted'
    BY DEF LibraryInv
  <2>1. ASSUME UNCHANGED <<up, uploads>> PROVE UploadsCounted'
    BY <2>1 DEF UploadsCounted
  <2>2. CASE Review \/ UNCHANGED vars
    <3>1. UNCHANGED media
      BY <2>2 DEF Review, Create, CreateBatch, Import, CreateJob, EditRead, EditWrite,
                  DeleteRead, StatusRead, StatusWrite, DeleteWrite, vars
    <3> QED
      BY <2>1, <3>1 DEF media
  <2>3. CASE Crash
    <3>1. Busy' = {} /\ uploads' = 0
      BY <2>3 DEF Crash, Busy, Typed, Upload
    <3>2. Cardinality(Busy') = 0
      BY <3>1, FS_EmptySet
    <3> QED
      BY <3>1, <3>2, ContentAssumption DEF UploadsCounted, Busy
  <2>4. ASSUME NEW u \in Uploads,
               \/ UploadEnter(u) \/ Claim(u) \/ Reject(u) \/ Put(u) \/ Commit(u)
               \/ FailPut(u) \/ FailCommit(u)
        PROVE  UploadsCounted'
    <3>1. CASE UploadEnter(u)
      <4>1. up[u].a \in Assets /\ up[u].image \in Images /\ u \notin Busy
        BY <3>1 DEF UploadEnter, Typed, Busy
      <4>2. CASE Reached(u, "idle") /\ UNCHANGED uploads
        <5>1. Busy' = Busy
          BY <4>1, <4>2, ReachedType DEF Busy
        <5> QED
          BY <4>2, <5>1 DEF UploadsCounted, Busy
      <4>3. CASE Reached(u, "receive") /\ uploads < MaxUploads /\ uploads' = uploads + 1
        <5>1. Busy' = Busy \cup {u}
          BY <4>1, <4>3, ReachedType DEF Busy
        <5>2. Cardinality(Busy') = Cardinality(Busy) + 1
          BY <4>1, <5>1, BusyFinite, FS_AddElement
        <5> QED
          BY <4>3, <5>2, BusyFinite, ContentAssumption DEF UploadsCounted, Busy
      <4> QED
        BY <3>1, <4>2, <4>3 DEF UploadEnter
    <3>2. CASE Claim(u) \/ Reject(u) \/ Put(u) \/ Commit(u) \/ FailPut(u) \/ FailCommit(u)
      <4>1. u \in Busy
        BY <3>2 DEF Claim, Reject, Put, Commit, FailPut, FailCommit, Busy
      <4>2. Leave(u) \/ (\E pc \in {"put", "commit", "unstored", "uncommitted"} :
                           Reached(u, pc) /\ UNCHANGED uploads)
        BY <3>2 DEF Claim, Reject, Put, Commit, FailPut, FailCommit, MarkFailed
      <4> QED
        BY <4>1, <4>2, LeaveCounted, MoveCounted
    <3> QED
      BY <2>4, <3>1, <3>2
  <2>5. ASSUME NEW a \in Assets, Reserve(a) \/ Expire(a) \/ Archive(a)
        PROVE  UploadsCounted'
    BY <2>1, <2>5 DEF Reserve, Expire, Archive
  <2>6. ASSUME NEW u \in Uploads, NEW a \in Assets, NEW image \in Images,
               UploadCheck(u, a, image)
        PROVE  UploadsCounted'
    <3>1. Busy' = Busy /\ UNCHANGED uploads
      BY <2>6 DEF UploadCheck, Busy, Typed
    <3> QED
      BY <3>1 DEF UploadsCounted, Busy
  <2> QED
    BY <2>2, <2>3, <2>4, <2>5, <2>6 DEF Next, Library
<1> QED
  BY <1>1, <1>2, LibraryInvariant, PTL DEF Spec

=============================================================================
