--------------------------- MODULE DesignTemplates -------------------------
(***************************************************************************)
(* Design templates and their immutable versions: the handlers of          *)
(* design-templates.ts, and the page that edits one                        *)
(* (design-template-manager.tsx, with the lifecycle controller of          *)
(* design-template-concurrency.ts).                                        *)
(*                                                                         *)
(* Versions of a template are numbered from 1 and kept, so the number of   *)
(* the latest stands for them; names and specs are left out.  One browser  *)
(* page is followed in detail, everybody else sends requests of any kind   *)
(* with any base version.  A request that was aborted changes nothing      *)
(* more, so the page has one live detail request and one live conflict     *)
(* request.  That a template is archived is left to the server to refuse:  *)
(* the page hides its edit button, but may not know yet.                   *)
(***************************************************************************)
EXTENDS Integers

CONSTANTS
  Templates,    \* template ids of the client
  Others,       \* handlers of requests of other users
  page,         \* the handler of the requests of the page
  SystemKeys,   \* keys of the default templates
  MaxVersions,  \* bound on the versions of a template
  MaxRequests,  \* bound on the requests of others
  Faults,       \* {"leaveWhileSaving"}: another template is shown while a
                \* save of the page is on its way
  none          \* null

Handlers == Others \cup {page}
Version  == 0..MaxVersions

(* What the page keeps when it keeps something. *)
Detail   == [id: Templates, v: Version]
Conflict == [server: Version, error: BOOLEAN, loading: BOOLEAN]
Fetch    == [t: Templates, v: Version]
Saving   == [pc: {"request", "reload"}, t: Templates, shown: Version]

ASSUME DesignTemplatesAssumption ==
  /\ page \notin Others /\ none \notin Templates \cup SystemKeys \cup Handlers
  /\ none \notin {"ACTIVE", "ARCHIVED"} \cup Detail \cup Conflict \cup Fetch \cup Saving
  /\ MaxVersions \in Nat \ {0} /\ MaxRequests \in Nat
  /\ Faults \subseteq {"leaveWhileSaving"}

VARIABLES
  template,  \* [Templates -> [status, latest, key]], a row with its versions
  rowLock,   \* [Templates -> the handler that holds FOR UPDATE, or none]
  advisory,  \* the handler that holds the advisory lock of the defaults, or none
  asked,     \* number of requests of others so far
  hand,      \* [Handlers -> local state of a request]
  sel,       \* selectedTemplateId
  detail,    \* detail: [id, v], the template shown and the latest version of it
             \* that was
  editing,   \* isEditingVersion
  base,      \* baseVersionNumber, 0 for null
  conflict,  \* conflictState: [base, server (0 for null), error, loading]
  active,    \* activeTemplateId of the lifecycle controller
  dreq,      \* the live detail request: [t, v], v = 0 until the server reads
  creq,      \* the live conflict request: [t, v, base]
  saving     \* the save in flight: [pc, t, shown], the version shown when it began

server == <<template, rowLock, advisory, asked>>
view   == <<sel, detail, editing, base, conflict, active, dreq, creq, saving>>
vars   == <<server, hand, view>>

Exists(t)  == template[t].status # "ABSENT"
Latest(t)  == template[t].latest
Absent     == [status |-> "ABSENT", latest |-> 0, key |-> none]
New(key)   == [status |-> "ACTIVE", latest |-> 1, key |-> key]
InFlight   == saving # none /\ saving.pc = "request"

-----------------------------------------------------------------------------
(* The server: one request *)

(* What others are answered matters to nobody here. *)
Answer(h, a)  == hand' = [hand EXCEPT ![h] =
  [pc |-> "done", answer |-> IF h = page \/ a = "duplicate key" THEN a ELSE "ok"]]
Proceed(h, s) == hand' = [hand EXCEPT ![h] = s]

(* A request of others arrives with its first statement. *)
Asks(h) ==
  /\ h \in Others /\ hand[h].pc = "done" /\ asked < MaxRequests
  /\ asked' = asked + 1

AsksVersion(h, t, b) ==
  \/ Asks(h)
  \/ h = page /\ hand[h] = [pc |-> "version", t |-> t, base |-> b] /\ UNCHANGED asked

(* Variant with a bug: the base version is not compared. *)
LockRowAnyBase(h, t, b) ==
  /\ Exists(t) /\ rowLock[t] = none
  /\ AsksVersion(h, t, b)
  /\ \/ /\ template[t].status = "ACTIVE"
        /\ rowLock' = [rowLock EXCEPT ![t] = h]
        /\ Proceed(h, [pc |-> "insert", t |-> t, v |-> Latest(t)])
     \/ template[t].status # "ACTIVE" /\ Answer(h, "refused") /\ UNCHANGED rowLock
  /\ UNCHANGED <<template, advisory, view>>

(* POST of a version: FOR UPDATE of the template, its status, the latest version
   and the base it was edited from; 400 and 409 end the transaction. *)
LockRow(h, t, b) ==
  /\ Exists(t) /\ rowLock[t] = none
  /\ AsksVersion(h, t, b)
  /\ \/ /\ template[t].status = "ACTIVE" /\ Latest(t) = b
        /\ rowLock' = [rowLock EXCEPT ![t] = h]
        /\ Proceed(h, [pc |-> "insert", t |-> t, v |-> Latest(t)])
     \/ /\ template[t].status = "ACTIVE" /\ Latest(t) # b
        /\ Answer(h, "conflict") /\ UNCHANGED rowLock
     \/ template[t].status # "ACTIVE" /\ Answer(h, "refused") /\ UNCHANGED rowLock
  /\ UNCHANGED <<template, advisory, view>>

(* The insert of the next number, and the commit. *)
Insert(h) ==
  /\ hand[h].pc = "insert"
  /\ LET t == hand[h].t IN
       /\ hand[h].v < MaxVersions
       /\ template' = [template EXCEPT ![t].latest = hand[h].v + 1]
       /\ rowLock' = [rowLock EXCEPT ![t] = none]
  /\ Answer(h, "ok")
  /\ UNCHANGED <<advisory, asked, view>>

(* Variant with a bug: a status that was given is written, changed or not. *)
PatchReadGiven(h, t, rename, status, admin) ==
  /\ Asks(h)
  /\ Exists(t)
  /\ IF \/ status = "ACTIVE" /\ template[t].status = "ARCHIVED" /\ ~admin
        \/ ~rename /\ status = none
     THEN Answer(h, "refused")
     ELSE Proceed(h, [pc |-> "update", t |-> t, status |-> status, admin |-> admin])
  /\ UNCHANGED <<template, rowLock, advisory, view>>

(* PATCH: the template is read without a lock, and what was given is compared with
   it; only an OWNER or ADMIN may reactivate. *)
PatchRead(h, t, rename, status, admin) ==
  LET changed == status # none /\ status # template[t].status IN
  /\ Asks(h)
  /\ Exists(t)
  /\ IF (changed /\ status = "ACTIVE" /\ ~admin) \/ (~changed /\ ~rename)
     THEN Answer(h, "refused")
     ELSE Proceed(h, [pc |-> "update", t |-> t, admin |-> admin,
                      status |-> IF changed THEN status ELSE none])
  /\ UNCHANGED <<template, rowLock, advisory, view>>

(* The update by id of what changed, and the commit; it waits for the lock of a
   version that is being added. *)
PatchWrite(h) ==
  /\ hand[h].pc = "update"
  /\ LET t == hand[h].t IN
       /\ rowLock[t] = none
       /\ template' = IF hand[h].status = none THEN template
                      ELSE [template EXCEPT ![t].status = hand[h].status]
  /\ Answer(h, "ok")
  /\ UNCHANGED <<rowLock, advisory, asked, view>>

KeysOf == {template[t].key : t \in Templates} \ {none}

(* Variant with a bug: without the advisory lock. *)
DefaultsLockNothing(h) ==
  /\ Asks(h)
  /\ Proceed(h, [pc |-> "read"])
  /\ UNCHANGED <<template, rowLock, advisory, view>>

(* POST default: the advisory lock of the client, until the end of the
   transaction. *)
DefaultsLock(h) ==
  /\ Asks(h)
  /\ advisory = none /\ advisory' = h
  /\ Proceed(h, [pc |-> "read"])
  /\ UNCHANGED <<template, rowLock, view>>

DefaultsRead(h) ==
  /\ hand[h].pc = "read"
  /\ Proceed(h, [pc |-> "defaults_create", missing |-> SystemKeys \ KeysOf])
  /\ UNCHANGED <<server, view>>

(* The missing ones are created with a version each, at the commit; the unique
   index on (organizationId, clientId, systemKey) fails the whole of it. *)
DefaultsCreate(h) ==
  /\ hand[h].pc = "defaults_create"
  /\ LET missing == hand[h].missing IN
       \/ /\ missing \cap KeysOf = {}
          /\ \E id \in [missing -> {t \in Templates : ~Exists(t)}] :
               /\ \A k1, k2 \in missing : id[k1] = id[k2] => k1 = k2
               /\ template' = [t \in Templates |->
                    IF \E k \in missing : id[k] = t
                    THEN New(CHOOSE k \in missing : id[k] = t) ELSE template[t]]
          /\ Answer(h, "ok")
       \/ missing \cap KeysOf # {} /\ Answer(h, "duplicate key") /\ UNCHANGED template
  /\ advisory' = IF advisory = h THEN none ELSE advisory
  /\ UNCHANGED <<rowLock, asked, view>>

(* POST, and POST duplicate: a new template with its version 1. *)
Create(h, t) ==
  /\ Asks(h)
  /\ ~Exists(t)
  /\ template' = [template EXCEPT ![t] = New(none)]
  /\ Answer(h, "ok")
  /\ UNCHANGED <<rowLock, advisory, view>>

(* The transaction fails or the process stops: all of it is rolled back. *)
Fail(h) ==
  /\ hand[h].pc # "done"
  /\ rowLock' = [t \in Templates |-> IF rowLock[t] = h THEN none ELSE rowLock[t]]
  /\ advisory' = IF advisory = h THEN none ELSE advisory
  /\ Answer(h, "refused")
  /\ UNCHANGED <<template, asked, view>>

-----------------------------------------------------------------------------
(* The page *)

MayLeave == InFlight => "leaveWhileSaving" \in Faults

(* startDetailRequest: it aborts the requests in flight. *)
RequestDetail(t) ==
  /\ dreq' = [t |-> t, v |-> 0]
  /\ creq' = none
  /\ active' = t

(* "Voltar ao catálogo", or the form for a new one. *)
Back ==
  /\ sel # none /\ MayLeave
  /\ sel' = none /\ active' = none /\ dreq' = none /\ creq' = none
  /\ detail' = none /\ conflict' = none /\ editing' = FALSE
  /\ UNCHANGED <<server, hand, base, saving>>

(* A card of the catalogue: "Visualizar" or "Editar versão". *)
Select(t, edit) ==
  /\ sel = none /\ detail = none /\ Exists(t) /\ MayLeave
  /\ sel' = t /\ editing' = edit
  /\ RequestDetail(t)
  /\ UNCHANGED <<server, hand, detail, base, conflict, saving>>

(* The answer to a create or a duplicate selects the new template, whatever
   is shown by then. *)
SelectCreated(t) ==
  /\ Exists(t) /\ t # sel /\ MayLeave
  /\ sel' = t
  /\ RequestDetail(t)
  /\ UNCHANGED <<server, hand, detail, editing, base, conflict, saving>>

(* GET of a template with its versions. *)
GetDetail ==
  /\ dreq # none /\ dreq.v = 0
  /\ dreq' = [dreq EXCEPT !.v = Latest(dreq.t)]
  /\ UNCHANGED <<server, hand, sel, detail, editing, base, conflict, active, creq, saving>>

GetForConflict ==
  /\ creq # none /\ creq.v = 0
  /\ creq' = [creq EXCEPT !.v = Latest(creq.t)]
  /\ UNCHANGED <<server, hand, sel, detail, editing, base, conflict, active, dreq, saving>>

(* The detail arrives: it is dropped unless its template is the active one. *)
DetailArrives ==
  /\ dreq # none /\ dreq.v # 0
  /\ detail # none /\ detail.id # dreq.t => MayLeave
  /\ dreq' = none
  /\ IF active = dreq.t
     THEN /\ detail' = [id |-> dreq.t, v |-> dreq.v]
          /\ base' = dreq.v /\ editing' = FALSE /\ conflict' = none
     ELSE UNCHANGED <<detail, base, editing, conflict>>
  /\ UNCHANGED <<server, hand, sel, active, creq, saving>>

DetailFails ==
  /\ dreq # none
  /\ dreq' = none
  /\ UNCHANGED <<server, hand, sel, detail, editing, base, conflict, active, creq, saving>>

(* "Criar nova versão". *)
StartEdit ==
  /\ detail # none /\ ~editing
  /\ editing' = TRUE /\ base' = detail.v /\ conflict' = none
  /\ UNCHANGED <<server, hand, sel, detail, active, dreq, creq, saving>>

(* "Cancelar edição"; a conflict request in flight goes on. *)
CancelEdit ==
  /\ detail # none /\ editing
  /\ editing' = FALSE /\ base' = detail.v /\ conflict' = none
  /\ UNCHANGED <<server, hand, sel, detail, active, dreq, creq, saving>>

(* "Salvar nova versão" of a changed draft: refused while a conflict is open
   or a save is on its way.  (A draft of poor contrast asks the user first and
   then sends what it was: time the request spends on its way.) *)
Save ==
  /\ detail # none /\ editing /\ base # 0 /\ conflict = none
  /\ saving = none /\ hand[page].pc = "done"
  /\ saving' = [pc |-> "request", t |-> detail.id, shown |-> detail.v]
  /\ Proceed(page, [pc |-> "version", t |-> detail.id, base |-> base])
  /\ UNCHANGED <<server, sel, detail, editing, base, conflict, active, dreq, creq>>

(* The answer is read; what the save waits for then. *)
Answered(pc) ==
  /\ hand' = [hand EXCEPT ![page].answer = "ok"]
  /\ saving' = IF pc = "done" THEN none ELSE [saving EXCEPT !.pc = pc]

SaveSucceeds ==
  /\ InFlight /\ hand[page] = [pc |-> "done", answer |-> "ok"]
  /\ editing' = FALSE /\ conflict' = none
  /\ RequestDetail(saving.t)
  /\ Answered("reload")
  /\ UNCHANGED <<server, sel, detail, base>>

(* reloadConflictServerVersion: the draft stays. *)
RequestConflict(t) ==
  /\ creq' = [t |-> t, v |-> 0]
  /\ active' = t
  /\ conflict' = IF conflict = none
                 THEN [server |-> 0, error |-> FALSE, loading |-> TRUE]
                 ELSE [conflict EXCEPT !.loading = TRUE, !.error = FALSE]

SaveConflicts ==
  /\ InFlight
  /\ hand[page] = [pc |-> "done", answer |-> "conflict"]
  /\ RequestConflict(saving.t)
  /\ Answered("reload")
  /\ UNCHANGED <<server, sel, detail, editing, base, dreq>>

(* Another error, or no answer at all to what was done. *)
SaveFails ==
  /\ InFlight /\ hand[page].pc = "done"
  /\ Answered("done")
  /\ UNCHANGED <<server, sel, detail, editing, base, conflict, active, dreq, creq>>

(* The finally of the save.  (It waits for the reload it asked for and for the
   catalogue, and for no longer if the reload is aborted: when is left open.) *)
SaveEnds ==
  /\ saving # none /\ saving.pc = "reload"
  /\ saving' = none
  /\ UNCHANGED <<server, hand, sel, detail, editing, base, conflict, active, dreq, creq>>

(* What the server has arrives: it is compared with the draft, and the list of
   versions of the template shown is brought up to date. *)
ConflictArrives ==
  /\ creq # none /\ creq.v # 0
  /\ creq' = none
  /\ IF active = creq.t
     THEN /\ conflict' = [server |-> creq.v,
                          error |-> FALSE, loading |-> FALSE]
          /\ detail' = IF detail # none /\ detail.id = creq.t
                       THEN [detail EXCEPT !.v = creq.v] ELSE detail
     ELSE UNCHANGED <<conflict, detail>>
  /\ UNCHANGED <<server, hand, sel, editing, base, active, dreq, saving>>

ConflictFails ==
  /\ creq # none
  /\ creq' = none
  /\ conflict' = IF active # creq.t THEN conflict
                 ELSE IF conflict = none
                 THEN [server |-> 0, error |-> TRUE, loading |-> FALSE]
                 ELSE [conflict EXCEPT !.error = TRUE, !.loading = FALSE]
  /\ UNCHANGED <<server, hand, sel, detail, editing, base, active, dreq, saving>>

(* The buttons of the conflict panel. *)
Retry ==
  /\ detail # none /\ conflict # none /\ conflict.error
  /\ RequestConflict(detail.id)
  /\ UNCHANGED <<server, hand, sel, detail, editing, base, dreq, saving>>

Loaded == conflict # none /\ ~conflict.loading /\ ~conflict.error /\ conflict.server # 0

Reapply ==
  /\ detail # none /\ Loaded
  /\ base' = conflict.server /\ conflict' = none
  /\ UNCHANGED <<server, hand, sel, detail, editing, active, dreq, creq, saving>>

Discard ==
  /\ detail # none /\ Loaded
  /\ base' = conflict.server /\ conflict' = none /\ editing' = FALSE
  /\ UNCHANGED <<server, hand, sel, detail, active, dreq, creq, saving>>

-----------------------------------------------------------------------------
Init ==
  /\ \E n \in [Templates -> 0..1] :
       template = [t \in Templates |-> IF n[t] = 0 THEN Absent ELSE New(none)]
  /\ rowLock = [t \in Templates |-> none] /\ advisory = none /\ asked = 0
  /\ hand = [h \in Handlers |-> [pc |-> "done", answer |-> "ok"]]
  /\ sel = none /\ detail = none /\ editing = FALSE /\ base = 0 /\ conflict = none
  /\ active = none /\ dreq = none /\ creq = none /\ saving = none

Request(h) ==
  \/ \E t \in Templates :
       \/ \E b \in 1..MaxVersions : LockRow(h, t, b)
       \/ \E rename, admin \in BOOLEAN, status \in {none, "ACTIVE", "ARCHIVED"} :
            PatchRead(h, t, rename, status, admin)
       \/ Create(h, t)
  \/ Insert(h) \/ PatchWrite(h)
  \/ DefaultsLock(h) \/ DefaultsRead(h) \/ DefaultsCreate(h)
  \/ Fail(h)

Page ==
  \/ Back \/ StartEdit \/ CancelEdit \/ Save \/ Retry \/ Reapply \/ Discard
  \/ \E t \in Templates : SelectCreated(t) \/ \E edit \in BOOLEAN : Select(t, edit)
  \/ GetDetail \/ DetailArrives \/ DetailFails
  \/ GetForConflict \/ ConflictArrives \/ ConflictFails
  \/ SaveSucceeds \/ SaveConflicts \/ SaveFails \/ SaveEnds

Next == Page \/ \E h \in Handlers : Request(h)

Spec == Init /\ [][Next]_vars

-----------------------------------------------------------------------------
(* Properties *)

(* Rows, locks, and the state of the page. *)
TypeOK ==
  /\ template \in [Templates -> [status : {"ABSENT", "ACTIVE", "ARCHIVED"},
                                 latest : Version, key : SystemKeys \cup {none}]]
  /\ rowLock \in [Templates -> Handlers \cup {none}]
  /\ advisory \in Handlers \cup {none} /\ asked \in 0..MaxRequests
  /\ base \in Version /\ editing \in BOOLEAN
  /\ detail \in Detail \cup {none} /\ conflict \in Conflict \cup {none}
  /\ dreq \in Fetch \cup {none} /\ creq \in Fetch \cup {none}
  /\ saving \in Saving \cup {none}
  /\ sel \in Templates \cup {none} /\ active \in Templates \cup {none}
  /\ \A h \in Handlers :
       hand[h].pc \in {"version", "insert", "update", "read", "defaults_create", "done"}

(* Optimistic concurrency, from the database to the eyes of the editor: when a
   save of the page adds a version, the one it comes after was shown to the
   user, in the detail or in the panel of a conflict.  Nobody's version is
   passed over unseen. *)
SavedOnWhatWasShown ==
  [][\A t \in Templates :
       Latest(t) # 0 /\ Latest(t)' # Latest(t) /\ hand[page].pc = "insert" /\ hand'[page].pc = "done"
         => Latest(t) = saving.shown]_vars

(* An archived template gets no version, whatever was on its way when it was
   archived, and only the patch of an OWNER or ADMIN makes it active again. *)
ArchiveHolds ==
  [][\A t \in Templates : template[t].status = "ARCHIVED" =>
       /\ Latest(t)' = Latest(t)
       /\ template'[t].status = "ACTIVE" =>
            \E h \in Handlers : hand[h].pc = "update" /\ hand[h].t = t /\ hand[h].admin]_vars

(* Two admins who initialise the defaults at the same time are both answered,
   and there is one template per key. *)
DefaultsNeverFail ==
  /\ \A h \in Handlers : hand[h] # [pc |-> "done", answer |-> "duplicate key"]
  /\ \A t, u \in Templates : template[t].key = template[u].key /\ t # u => template[t].key = none
=============================================================================
