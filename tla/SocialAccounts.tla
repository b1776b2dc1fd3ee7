--------------------------- MODULE SocialAccounts ---------------------------
(***************************************************************************)
(* Connection of social accounts through Meta's OAuth (social-accounts.ts):*)
(* the one-time state, the discovery kept in Redis, its durable            *)
(* consumption in PostgreSQL, the Redis lock around a connect, and         *)
(* disconnect; with the writes of the publication service on the same      *)
(* accounts.                                                               *)
(*                                                                         *)
(* A transaction reads at READ COMMITTED: each read is a step of its own.  *)
(* Its writes begin with the row of the account (an update, or an insert   *)
(* the unique index serialises), which it keeps locked until it ends, so   *)
(* they are one step.  Ids are model values that are used once.            *)
(***************************************************************************)
EXTENDS FiniteSets

CONSTANTS
  Users,        \* members of the organization, each with one session
  Clients,      \* its clients
  Assets,       \* pages and Instagram accounts, the same for every client
  States,       \* OAuth states, random
  Discoveries,  \* discovery ids, random
  Callbacks,    \* concurrent GET .../meta/callback handlers
  Connects,     \* concurrent POST .../social-accounts/connect handlers
  none          \* null

ASSUME ConstantsAssumption ==
  none \notin Users \cup Clients \cup States \cup Discoveries \cup Connects

VARIABLES
  editors,      \* memberships that may edit: a set of <<user, client>>
  states,       \* [States -> meta:oauth:state:<state>]
  discoveries,  \* [Discoveries -> meta:oauth:discovery:<id>, and its origin]
  lock,         \* [Discoveries -> owner of meta:oauth:discovery:lock:<id>]
  consumption,  \* [Discoveries -> OAuthDiscoveryConsumption, the selection; {} no row]
  account,      \* [Clients -> [Assets -> SocialAccount.status]]
  credential,   \* [Clients -> [Assets -> the discovery its token comes from]]
  callback,     \* [Callbacks -> the state a callback exchanges, none before and after]
  connect,      \* [Connects -> local state of a connect]
  answered,     \* [Discoveries -> selections answered with 200] (history)
  connections   \* discoveries whose accounts were written, <<id, connect>> (history)

db    == <<consumption, account, credential, answered, connections>>
redis == <<states, discoveries, lock>>
vars  == <<editors, redis, db, callback, connect>>

Status == {"ABSENT", "ACTIVE", "EXPIRED", "DISCONNECTED"}

-----------------------------------------------------------------------------
(* The OAuth state and the callback *)

(* GET .../meta/authorize: SET meta:oauth:state:<state> EX 600. *)
Authorize(u, c, s) ==
  /\ <<u, c>> \in editors
  /\ states[s].key = "unused"
  /\ states' = [states EXCEPT ![s] = [key |-> "stored", user |-> u, client |-> c]]
  /\ UNCHANGED <<editors, discoveries, lock, db, callback, connect>>

(* Variant with a bug: GET, and the key left to its TTL. *)
CallbackTakeKeepingState(b, u, s) ==
  /\ callback[b] = none
  /\ states[s].key = "stored"
  /\ states' = states
  /\ callback' = IF u = states[s].user /\ <<u, states[s].client>> \in editors
                 THEN [callback EXCEPT ![b] = s] ELSE callback
  /\ UNCHANGED <<editors, discoveries, lock, db, connect>>

(* GET and DEL of the state in one script, then the session and, with the
   tenant of the state, accessScope: the state is gone whatever comes next.  A
   state that is not there changes nothing. *)
CallbackTake(b, u, s) ==
  /\ callback[b] = none
  /\ states[s].key = "stored"
  /\ states' = [states EXCEPT ![s].key = "gone"]
  /\ callback' = IF u = states[s].user /\ <<u, states[s].client>> \in editors
                 THEN [callback EXCEPT ![b] = s] ELSE callback
  /\ UNCHANGED <<editors, discoveries, lock, db, connect>>

(* The error branch: the state is taken without a look at the session.  The
   TTL does the same. *)
StateDropped(s) ==
  /\ states[s].key = "stored"
  /\ states' = [states EXCEPT ![s].key = "gone"]
  /\ UNCHANGED <<editors, discoveries, lock, db, callback, connect>>

(* The pages found and the Instagram accounts linked to them, each with its
   token, encrypted for the tenant of the state. *)
Found(s, assets) ==
  [key |-> "stored", from |-> s, user |-> states[s].user,
   client |-> states[s].client, assets |-> assets]

(* The token is exchanged, the assets are listed and stored for 10 minutes
   under a new id. *)
CallbackStore(b, d, found) ==
  /\ callback[b] # none
  /\ discoveries[d].key = "unused"
  /\ discoveries' = [discoveries EXCEPT ![d] = Found(callback[b], found)]
  /\ callback' = [callback EXCEPT ![b] = none]
  /\ UNCHANGED <<editors, states, lock, db, connect>>

(* Meta or Redis fails, or the process stops: the user starts over. *)
CallbackFails(b) ==
  /\ callback[b] # none
  /\ callback' = [callback EXCEPT ![b] = none]
  /\ UNCHANGED <<editors, redis, db, connect>>

-----------------------------------------------------------------------------
(* Connect *)

Idle == [pc |-> "idle", user |-> none, client |-> none, disc |-> none,
         selected |-> {}, known |-> {}, late |-> FALSE]

Go(r, pc) == connect' = [connect EXCEPT ![r].pc = pc]
Same      == UNCHANGED <<editors, states, db, callback>>

MayConnect(r) == <<connect[r].user, connect[r].client>> \in editors
Disc(r)       == discoveries[connect[r].disc]
Owner(r)      == connect[r].user = Disc(r).user /\ connect[r].client = Disc(r).client
Consumed(r)   == consumption[connect[r].disc]

(* SET lock NX EX 15.  "late" remembers that the discovery was consumed. *)
ConnectLock(r, u, c, d, selected) ==
  /\ connect[r].pc = "idle"
  /\ selected # {}
  /\ discoveries[d].key # "unused"
  /\ lock[d] = none
  /\ lock' = [lock EXCEPT ![d] = r]
  /\ connect' = [connect EXCEPT ![r] =
       [pc |-> "consumption", user |-> u, client |-> c, disc |-> d,
        selected |-> selected, known |-> {}, late |-> consumption[d] # {}]]
  /\ UNCHANGED <<editors, states, discoveries, db, callback>>

(* resolveExistingConsumption *)
Resolved(r) == IF Owner(r) /\ Consumed(r) = connect[r].selected
               THEN "replay" ELSE "refused"

(* Variant with a bug: the durable record is only looked at after Redis. *)
ReadConsumptionAfterRedis(r) ==
  /\ connect[r].pc = "consumption"
  /\ Go(r, IF ~MayConnect(r) THEN "refused"
           ELSE IF Disc(r).key # "stored" \/ Consumed(r) = {} THEN "discovery"
           ELSE Resolved(r))
  /\ UNCHANGED <<discoveries, lock>> /\ Same

(* access, then oAuthDiscoveryConsumption.findUnique. *)
ReadConsumption(r) ==
  /\ connect[r].pc = "consumption"
  /\ Go(r, IF ~MayConnect(r) THEN "refused"
           ELSE IF Consumed(r) = {} THEN "discovery" ELSE Resolved(r))
  /\ UNCHANGED <<discoveries, lock>> /\ Same

(* redis.get of the discovery, its tenant, user and session, and the
   selected assets. *)
ReadDiscovery(r) ==
  /\ connect[r].pc = "discovery"
  /\ Go(r, IF Disc(r).key = "stored" /\ Owner(r)
              /\ connect[r].selected \subseteq Disc(r).assets
           THEN "accounts" ELSE "refused")
  /\ UNCHANGED <<discoveries, lock>> /\ Same

(* socialAccount.findFirst of each asset. *)
ReadAccounts(r) ==
  /\ connect[r].pc = "accounts"
  /\ connect' = [connect EXCEPT
       ![r].pc = "write",
       ![r].known = {a \in connect[r].selected :
                       account[connect[r].client][a] # "ABSENT"}]
  /\ UNCHANGED <<discoveries, lock>> /\ Same

(* Variant with a bug: without the unique index on discoveryId. *)
UniqueViolationOfAccounts(r) ==
  \E a \in connect[r].selected \ connect[r].known :
     account[connect[r].client][a] # "ABSENT"

(* P2002: the discovery was consumed, or an account created, by another
   transaction since this one looked. *)
UniqueViolation(r) ==
  \/ Consumed(r) # {}
  \/ \E a \in connect[r].selected \ connect[r].known :
        account[connect[r].client][a] # "ABSENT"

(* Every account, its credential, its audit and the consumption, in one
   transaction; the policies of the tables look at the membership again. *)
ConnectWrite(r) ==
  LET c == connect[r].client IN
  /\ connect[r].pc = "write"
  /\ MayConnect(r) /\ ~UniqueViolation(r)
  /\ account' = [account EXCEPT ![c] = [a \in Assets |->
       IF a \in connect[r].selected THEN "ACTIVE" ELSE account[c][a]]]
  /\ credential' = [credential EXCEPT ![c] = [a \in Assets |->
       IF a \in connect[r].selected THEN connect[r].disc ELSE credential[c][a]]]
  /\ consumption' = [consumption EXCEPT ![connect[r].disc] = connect[r].selected]
  /\ connections' = connections \cup {<<connect[r].disc, r>>}
  /\ Go(r, "committed")
  /\ UNCHANGED <<editors, redis, answered, callback>>

(* The rolled back transaction is followed by a clean one. *)
ConnectConflict(r) ==
  /\ connect[r].pc = "write"
  /\ UniqueViolation(r)
  /\ Go(r, "recover")
  /\ UNCHANGED <<discoveries, lock>> /\ Same

Recover(r) ==
  /\ connect[r].pc = "recover"
  /\ Go(r, IF MayConnect(r) /\ Consumed(r) # {} THEN Resolved(r) ELSE "refused")
  /\ UNCHANGED <<discoveries, lock>> /\ Same

(* A deadlock, a timeout or a policy ends the transaction: nothing remains
   of it and the answer is 503. *)
TransactionFails(r) ==
  /\ connect[r].pc \in {"consumption", "discovery", "accounts", "write", "recover"}
  /\ Go(r, "done")
  /\ UNCHANGED <<discoveries, lock>> /\ Same

(* The discovery is deleted, best effort, and the answer sent. *)
CleanUp(r) ==
  /\ connect[r].pc \in {"committed", "replay"}
  /\ \/ discoveries' = [discoveries EXCEPT ![connect[r].disc].key = "gone"]
     \/ discoveries' = discoveries
  /\ answered' = [answered EXCEPT ![connect[r].disc] = @ \cup {connect[r].selected}]
  /\ Go(r, "done")
  /\ UNCHANGED <<editors, states, lock, consumption, account, credential,
                 callback, connections>>

(* The lock is deleted only if this request still owns it.  A script that
   fails leaves what a crash leaves. *)
Release(r) ==
  LET d == connect[r].disc IN
  /\ connect[r].pc \in {"done", "refused"}
  /\ lock' = IF lock[d] = r THEN [lock EXCEPT ![d] = none] ELSE lock
  /\ connect' = [connect EXCEPT ![r] = Idle]
  /\ UNCHANGED discoveries /\ Same

Crash(r) ==
  /\ connect[r].pc # "idle"
  /\ connect' = [connect EXCEPT ![r] = Idle]
  /\ UNCHANGED <<discoveries, lock>> /\ Same

-----------------------------------------------------------------------------
(* Time and the other writers of an account *)

LockExpires(d) ==
  /\ lock[d] # none
  /\ lock' = [lock EXCEPT ![d] = none]
  /\ UNCHANGED <<discoveries, connect>> /\ Same

(* GET .../discovery/:discoveryId by any editor, before its tenant is looked
   at: a discovery whose own time has ended is deleted, any other one stays. *)
Query(u, c, d) ==
  /\ <<u, c>> \in editors
  /\ discoveries[d].key = "stored"
  /\ discoveries' = [discoveries EXCEPT ![d].key = "gone"]
  /\ UNCHANGED <<lock, connect>> /\ Same

(* The TTL of its key. *)
DiscoveryExpires(d) ==
  /\ discoveries[d].key = "stored"
  /\ discoveries' = [discoveries EXCEPT ![d].key = "gone"]
  /\ UNCHANGED <<lock, connect>> /\ Same

(* An administrator takes the membership away. *)
Revoke(u, c) ==
  /\ <<u, c>> \in editors
  /\ editors' = editors \ {<<u, c>>}
  /\ UNCHANGED <<redis, db, callback, connect>>

(* Variant with a bug: the credential stays. *)
DisconnectKeepingToken(u, c, a) ==
  /\ <<u, c>> \in editors
  /\ account[c][a] # "ABSENT"
  /\ account' = [account EXCEPT ![c][a] = "DISCONNECTED"]
  /\ UNCHANGED <<credential, editors, redis, consumption, answered, connections,
                 callback, connect>>

(* DELETE .../social-accounts/:accountId, one transaction. *)
Disconnect(u, c, a) ==
  /\ <<u, c>> \in editors
  /\ account[c][a] # "ABSENT"
  /\ account' = [account EXCEPT ![c][a] = "DISCONNECTED"]
  /\ credential' = [credential EXCEPT ![c][a] = none]
  /\ UNCHANGED <<editors, redis, consumption, answered, connections,
                 callback, connect>>

(* Meta refuses the token of a publication that read the account when it was
   ACTIVE, however long ago: EXPIRED is written by the id of the account,
   whatever has happened to it since. *)
Expire(c, a) ==
  /\ account[c][a] # "ABSENT"
  /\ account' = [account EXCEPT ![c][a] = "EXPIRED"]
  /\ UNCHANGED <<editors, redis, consumption, credential, answered, connections,
                 callback, connect>>

-----------------------------------------------------------------------------
NoState     == [key |-> "unused", user |-> none, client |-> none]
NoDiscovery == [key |-> "unused", from |-> none, user |-> none, client |-> none,
                assets |-> {}]

Init ==
  /\ editors = Users \X Clients
  /\ states = [s \in States |-> NoState]
  /\ discoveries = [d \in Discoveries |-> NoDiscovery]
  /\ lock = [d \in Discoveries |-> none]
  /\ consumption = [d \in Discoveries |-> {}]
  /\ account = [c \in Clients |-> [a \in Assets |-> "ABSENT"]]
  /\ credential = [c \in Clients |-> [a \in Assets |-> none]]
  /\ callback = [b \in Callbacks |-> none]
  /\ connect = [r \in Connects |-> Idle]
  /\ answered = [d \in Discoveries |-> {}]
  /\ connections = {}

Callback(b) ==
  \/ \E u \in Users, s \in States : CallbackTake(b, u, s)
  \/ CallbackFails(b)
  \/ \E d \in Discoveries, found \in SUBSET Assets : CallbackStore(b, d, found)

Connect(r) ==
  \/ \E u \in Users, c \in Clients, d \in Discoveries, selected \in SUBSET Assets :
       ConnectLock(r, u, c, d, selected)
  \/ ReadConsumption(r) \/ ReadDiscovery(r) \/ ReadAccounts(r)
  \/ ConnectWrite(r) \/ ConnectConflict(r) \/ Recover(r) \/ TransactionFails(r)
  \/ CleanUp(r) \/ Release(r) \/ Crash(r)

Others ==
  \/ \E u \in Users, c \in Clients, s \in States : Authorize(u, c, s)
  \/ \E s \in States : StateDropped(s)
  \/ \E d \in Discoveries : LockExpires(d) \/ DiscoveryExpires(d)
  \/ \E u \in Users, c \in Clients, d \in Discoveries : Query(u, c, d)
  \/ \E u \in Users, c \in Clients : Revoke(u, c)
  \/ \E u \in Users, c \in Clients, a \in Assets : Disconnect(u, c, a)
  \/ \E c \in Clients, a \in Assets : Expire(c, a)

Next ==
  \/ \E b \in Callbacks : Callback(b)
  \/ \E r \in Connects : Connect(r)
  \/ Others

Spec == Init /\ [][Next]_vars

-----------------------------------------------------------------------------
(* Properties *)

(* Every variable keeps its type. *)
TypeOK ==
  /\ editors \subseteq Users \X Clients
  /\ states \in [States -> [key: {"unused", "stored", "gone"},
                            user: Users \cup {none}, client: Clients \cup {none}]]
  /\ discoveries \in [Discoveries ->
       [key: {"unused", "stored", "gone"}, from: States \cup {none},
        user: Users \cup {none}, client: Clients \cup {none}, assets: SUBSET Assets]]
  /\ lock \in [Discoveries -> Connects \cup {none}]
  /\ consumption \in [Discoveries -> SUBSET Assets]
  /\ account \in [Clients -> [Assets -> Status]]
  /\ credential \in [Clients -> [Assets -> Discoveries \cup {none}]]
  /\ callback \in [Callbacks -> States \cup {none}]
  /\ connect \in [Connects ->
       [pc: {"idle", "consumption", "discovery", "accounts", "write", "recover",
             "committed", "replay", "refused", "done"},
        user: Users \cup {none}, client: Clients \cup {none},
        disc: Discoveries \cup {none}, selected: SUBSET Assets,
        known: SUBSET Assets, late: BOOLEAN]]
  /\ answered \in [Discoveries -> SUBSET SUBSET Assets]
  /\ connections \subseteq Discoveries \X Connects

(* A state is exchanged for one discovery at most: two callbacks that arrive
   with one state never both reach Meta. *)
StateUsedOnce ==
  \A d, e \in Discoveries :
    discoveries[d].from # none /\ discoveries[d].from = discoveries[e].from => d = e

(* A discovery is consumed once: its accounts are written once, and whoever is
   answered 200, the first time or as a replay, is answered for the selection
   that was written, although the Redis lock may end too soon. *)
ConsumedOnce ==
  \A d \in Discoveries :
    /\ \A p, q \in connections : p[1] = d /\ q[1] = d => p = q
    /\ answered[d] \subseteq {consumption[d]}

(* An account that publishes has a token, a disconnected one has none, and a
   token is only ever used for the client whose user authorized and selected
   the asset. *)
TokensBelong ==
  \A c \in Clients, a \in Assets :
    /\ account[c][a] = "ACTIVE" => credential[c][a] # none
    /\ account[c][a] \in {"ABSENT", "DISCONNECTED"} => credential[c][a] = none
    /\ credential[c][a] # none =>
         /\ discoveries[credential[c][a]].client = c
         /\ a \in consumption[credential[c][a]]

(* The answer to a connect may be lost after its commit, with the discovery
   already deleted from Redis: the same request, made again, is not refused. *)
RetryIsReplayed ==
  \A r \in Connects :
    connect[r].pc = "refused" =>
      ~ (connect[r].late /\ MayConnect(r) /\ Owner(r) /\ Consumed(r) = connect[r].selected)
=============================================================================
