------------------------ MODULE SocialAccountsProofs ------------------------
(***************************************************************************)
(* What holds of SocialAccounts for all sets of users, clients, assets,    *)
(* states, discoveries, and any number of concurrent requests.             *)
(***************************************************************************)
EXTENDS SocialAccounts, TLAPS

-----------------------------------------------------------------------------
(* The inductive invariant *)

(* A state is taken before it is exchanged, and by one callback: neither
   another callback nor a discovery has it. *)
StateInv ==
  /\ \A s \in States : states[s].key # "unused" =>
       states[s].user \in Users /\ states[s].client \in Clients
  /\ \A d \in Discoveries :
       /\ discoveries[d].key = "unused" <=> discoveries[d].from = none
       /\ discoveries[d].from # none => states[discoveries[d].from].key = "gone"
  /\ \A b \in Callbacks : callback[b] # none =>
       /\ states[callback[b]].key = "gone"
       /\ \A d \in Discoveries : discoveries[d].from # callback[b]
  /\ \A b, c \in Callbacks : callback[b] # none /\ callback[b] = callback[c] => b = c

(* What a connect knows of its discovery.  One that began late, after the
   discovery was consumed, is replayed or refused by the consumption. *)
ConnectInv(r) ==
  connect[r].pc # "idle" =>
    /\ connect[r].user \in Users /\ connect[r].client \in Clients
    /\ connect[r].disc \in Discoveries /\ connect[r].selected # {}
    /\ Disc(r).key # "unused"
    /\ connect[r].pc \in {"accounts", "write"} => Owner(r)
    /\ connect[r].pc \in {"committed", "replay"} => Consumed(r) = connect[r].selected
    /\ connect[r].late =>
         /\ Consumed(r) # {}
         /\ connect[r].pc \notin {"discovery", "accounts", "write", "recover"}
         /\ connect[r].pc = "refused" =>
              ~(MayConnect(r) /\ Owner(r) /\ Consumed(r) = connect[r].selected)

(* Nothing comes of a discovery before it is consumed. *)
ConsumptionInv ==
  \A d \in Discoveries :
    /\ consumption[d] # {} => discoveries[d].key # "unused"
    /\ consumption[d] = {} => answered[d] = {} /\ \A p \in connections : p[1] # d

Inv ==
  /\ TypeOK /\ StateInv /\ StateUsedOnce
  /\ \A r \in Connects : ConnectInv(r)
  /\ ConsumptionInv /\ ConsumedOnce /\ TokensBelong

Places == {"idle", "consumption", "discovery", "accounts", "write", "recover",
           "committed", "replay", "refused", "done"}

Locals == [pc : Places, user : Users \cup {none}, client : Clients \cup {none},
           disc : Discoveries \cup {none}, selected : SUBSET Assets,
           known : SUBSET Assets, late : BOOLEAN]

-----------------------------------------------------------------------------
(* Connects *)

(* A discovery that exists keeps its origin and its tenant. *)
SameDiscovery(d) ==
  /\ discoveries'[d].from = discoveries[d].from
  /\ discoveries'[d].user = discoveries[d].user
  /\ discoveries'[d].client = discoveries[d].client
  /\ discoveries'[d].key = "unused" <=> discoveries[d].key = "unused"

LEMMA DiscoveryGone ==
  ASSUME Inv, NEW d \in Discoveries, discoveries[d].key # "unused",
         discoveries' = [discoveries EXCEPT ![d].key = "gone"]
  PROVE  /\ discoveries' \in [Discoveries ->
              [key: {"unused", "stored", "gone"}, from: States \cup {none},
               user: Users \cup {none}, client: Clients \cup {none}, assets: SUBSET Assets]]
         /\ \A e \in Discoveries : SameDiscovery(e)
<1> DEFINE Record == [key: {"unused", "stored", "gone"}, from: States \cup {none},
                      user: Users \cup {none}, client: Clients \cup {none},
                      assets: SUBSET Assets]
<1>1. discoveries \in [Discoveries -> Record]
  BY DEF Inv, TypeOK
<1>2. [discoveries[d] EXCEPT !.key = "gone"] \in Record
  BY <1>1
<1>3. discoveries' \in [Discoveries -> Record]
  BY <1>1, <1>2
<1>4. ASSUME NEW e \in Discoveries PROVE SameDiscovery(e)
  <2>1. CASE e = d
    <3>1. discoveries'[e] = [discoveries[d] EXCEPT !.key = "gone"] /\ discoveries[d] \in Record
      BY <1>1, <2>1
    <3> QED
      BY <2>1, <3>1 DEF SameDiscovery
  <2>2. CASE e # d
    <3>1. discoveries'[e] = discoveries[e]
      BY <1>1, <2>2
    <3> QED
      BY <3>1 DEF SameDiscovery
  <2> QED
    BY <2>1, <2>2
<1> QED
  BY <1>3, <1>4

LEMMA DiscoveriesKept ==
  ASSUME Inv, \A e \in Discoveries : SameDiscovery(e),
         UNCHANGED <<states, callback, consumption, account, credential>>
  PROVE  StateInv' /\ StateUsedOnce' /\ TokensBelong'
<1>1. StateInv' /\ StateUsedOnce'
  BY DEF Inv, StateInv, StateUsedOnce, SameDiscovery
<1>2. \A c \in Clients, a \in Assets : credential[c][a] \in Discoveries \cup {none}
  BY DEF Inv, TypeOK
<1>3. TokensBelong'
  BY <1>2 DEF Inv, TokensBelong, SameDiscovery
<1> QED
  BY <1>1, <1>3

(* A step of a connect that touches nothing but itself and its lock. *)
LEMMA ConnectMoves ==
  ASSUME Inv, NEW r \in Connects,
         UNCHANGED <<editors, states, discoveries, db, callback>>,
         lock' \in [Discoveries -> Connects \cup {none}],
         NEW q \in Locals,
         connect' = [connect EXCEPT ![r] = q],
         ConnectInv(r)'
  PROVE  Inv'
<1>1. TypeOK'
  BY DEF Inv, TypeOK, db, Locals, Places
<1>2. StateInv' /\ StateUsedOnce' /\ ConsumptionInv' /\ ConsumedOnce' /\ TokensBelong'
  BY DEF Inv, db, StateInv, StateUsedOnce, ConsumptionInv, ConsumedOnce, TokensBelong
<1>3. ASSUME NEW v \in Connects \ {r} PROVE ConnectInv(v)'
  <2>1. v \in Connects /\ ConnectInv(v) /\ connect'[v] = connect[v]
    BY <1>3 DEF Inv, TypeOK
  <2>2. Disc(v)' = Disc(v) /\ Consumed(v)' = Consumed(v)
    BY <2>1 DEF Disc, Consumed, db
  <2>3. editors' = editors
    OBVIOUS
  <2> QED
    BY <2>1, <2>2, <2>3 DEF ConnectInv, Owner, MayConnect
<1> QED
  BY <1>1, <1>2, <1>3 DEF Inv

(* In particular one that goes to another place. *)
LEMMA ConnectGoes ==
  ASSUME Inv, NEW r \in Connects, NEW pc \in Places \ {"idle"}, Go(r, pc),
         connect[r].pc # "idle",
         UNCHANGED <<editors, states, discoveries, lock, db, callback>>,
         pc \in {"accounts", "write"} => Owner(r),
         pc \in {"committed", "replay"} => Consumed(r) = connect[r].selected,
         connect[r].late =>
           /\ pc \notin {"discovery", "accounts", "write", "recover"}
           /\ pc = "refused" =>
                ~(MayConnect(r) /\ Owner(r) /\ Consumed(r) = connect[r].selected)
  PROVE  Inv'
<1> DEFINE q == [connect[r] EXCEPT !.pc = pc]
<1>1. q \in Locals
  <2>1. connect[r] \in Locals
    BY DEF Inv, TypeOK, Locals, Places
  <2> QED
    BY <2>1 DEF Locals
<1>2. connect' = [connect EXCEPT ![r] = q]
  BY DEF Go
<1>3. connect'[r] = q
  BY <1>2 DEF Inv, TypeOK
<1>4. ConnectInv(r)'
  <2>1. /\ connect'[r].pc = pc /\ connect'[r].user = connect[r].user
        /\ connect'[r].client = connect[r].client /\ connect'[r].disc = connect[r].disc
        /\ connect'[r].selected = connect[r].selected /\ connect'[r].late = connect[r].late
    BY <1>3 DEF Inv, TypeOK
  <2> QED
    BY <2>1 DEF Inv, db, ConnectInv, Owner, MayConnect, Disc, Consumed
<1>5. lock' \in [Discoveries -> Connects \cup {none}]
  BY DEF Inv, TypeOK
<1> QED
  BY <1>1, <1>2, <1>4, <1>5, ConnectMoves

LEMMA LockStep ==
  ASSUME Inv, NEW r \in Connects, NEW u \in Users, NEW c \in Clients,
         NEW d \in Discoveries, NEW selected \in SUBSET Assets,
         ConnectLock(r, u, c, d, selected)
  PROVE  Inv'
<1> DEFINE q == [pc |-> "consumption", user |-> u, client |-> c, disc |-> d,
                 selected |-> selected, known |-> {}, late |-> consumption[d] # {}]
<1>1. q \in Locals
  BY DEF Locals, Places
<1>2. connect' = [connect EXCEPT ![r] = q] /\ connect'[r] = q
  BY DEF ConnectLock, Inv, TypeOK
<1>3. lock' \in [Discoveries -> Connects \cup {none}]
  BY DEF ConnectLock, Inv, TypeOK
<1>4. ConnectInv(r)'
  <2>1. /\ connect'[r].pc = "consumption" /\ connect'[r].user = u
        /\ connect'[r].client = c /\ connect'[r].disc = d
        /\ connect'[r].selected = selected /\ connect'[r].late = (consumption[d] # {})
    BY <1>2
  <2>2. selected # {} /\ discoveries'[d].key # "unused" /\ consumption' = consumption
    BY DEF ConnectLock, db
  <2> QED
    BY <2>1, <2>2 DEF ConnectInv, Disc, Consumed
<1> QED
  BY <1>1, <1>2, <1>3, <1>4, ConnectMoves DEF ConnectLock

(* A request that ends, or dies, is idle again. *)
LEMMA IdleStep ==
  ASSUME Inv, NEW r \in Connects, Release(r) \/ Crash(r)
  PROVE  Inv'
<1>1. /\ connect' = [connect EXCEPT ![r] = Idle]
      /\ lock' \in [Discoveries -> Connects \cup {none}]
      /\ UNCHANGED <<editors, states, discoveries, db, callback>>
  BY DEF Release, Crash, Same, Inv, TypeOK
<1>2. Idle \in Locals
  BY DEF Idle, Locals, Places
<1>3. ConnectInv(r)'
  BY <1>1 DEF Inv, TypeOK, ConnectInv, Idle
<1> QED
  BY <1>1, <1>2, <1>3, ConnectMoves

LEMMA ReadStep ==
  ASSUME Inv, NEW r \in Connects,
         \/ ReadConsumption(r) \/ ReadDiscovery(r) \/ ConnectConflict(r)
         \/ Recover(r) \/ TransactionFails(r)
  PROVE  Inv'
<1>1. connect[r].pc # "idle" /\ UNCHANGED <<editors, states, discoveries, lock, db, callback>>
  BY DEF ReadConsumption, ReadDiscovery, ConnectConflict, Recover, TransactionFails, Same
<1>2. ConnectInv(r)
  BY DEF Inv
<1>3. CASE ReadConsumption(r)
  <2>1. CASE ~MayConnect(r)
    BY <1>1, <1>2, <1>3, <2>1, ConnectGoes DEF ReadConsumption, Places
  <2>2. CASE MayConnect(r) /\ Consumed(r) = {}
    BY <1>1, <1>2, <1>3, <2>2, ConnectGoes DEF ReadConsumption, Places, ConnectInv
  <2>3. CASE MayConnect(r) /\ Consumed(r) # {}
    BY <1>1, <1>2, <1>3, <2>3, ConnectGoes DEF ReadConsumption, Resolved, Places
  <2> QED
    BY <2>1, <2>2, <2>3
<1>4. CASE ReadDiscovery(r)
  <2>1. ~connect[r].late
    BY <1>1, <1>2, <1>4 DEF ReadDiscovery, ConnectInv
  <2>2. CASE Disc(r).key = "stored" /\ Owner(r) /\ connect[r].selected \subseteq Disc(r).assets
    BY <1>1, <1>4, <2>1, <2>2, ConnectGoes DEF ReadDiscovery, Places
  <2>3. CASE ~(Disc(r).key = "stored" /\ Owner(r) /\ connect[r].selected \subseteq Disc(r).assets)
    BY <1>1, <1>4, <2>1, <2>3, ConnectGoes DEF ReadDiscovery, Places
  <2> QED
    BY <2>2, <2>3
<1>5. CASE ConnectConflict(r)
  BY <1>1, <1>2, <1>5, ConnectGoes DEF ConnectConflict, ConnectInv, Places
<1>6. CASE Recover(r)
  <2>1. ~connect[r].late
    BY <1>1, <1>2, <1>6 DEF Recover, ConnectInv
  <2>2. CASE MayConnect(r) /\ Consumed(r) # {} /\ Resolved(r) = "replay"
    BY <1>1, <1>6, <2>1, <2>2, ConnectGoes DEF Recover, Resolved, Places
  <2>3. CASE ~(MayConnect(r) /\ Consumed(r) # {} /\ Resolved(r) = "replay")
    BY <1>1, <1>6, <2>1, <2>3, ConnectGoes DEF Recover, Resolved, Places
  <2> QED
    BY <2>2, <2>3
<1>7. CASE TransactionFails(r)
  BY <1>1, <1>7, ConnectGoes DEF TransactionFails, Places
<1> QED
  BY <1>3, <1>4, <1>5, <1>6, <1>7

LEMMA AccountsStep ==
  ASSUME Inv, NEW r \in Connects, ReadAccounts(r)
  PROVE  Inv'
<1> DEFINE known == {a \in connect[r].selected : account[connect[r].client][a] # "ABSENT"}
           q == [connect[r] EXCEPT !.pc = "write", !.known = known]
<1>1. q \in Locals
  <2>1. connect[r] \in Locals
    BY DEF Inv, TypeOK, Locals, Places
  <2>2. known \in SUBSET Assets
    BY <2>1 DEF Locals
  <2> QED
    BY <2>1, <2>2 DEF Locals, Places
<1>2. connect' = [connect EXCEPT ![r] = q]
  BY DEF ReadAccounts
<1>3. connect'[r] = q
  BY <1>2 DEF Inv, TypeOK
<1>4. ConnectInv(r)'
  <2>1. /\ connect'[r].pc = "write" /\ connect'[r].user = connect[r].user
        /\ connect'[r].client = connect[r].client /\ connect'[r].disc = connect[r].disc
        /\ connect'[r].selected = connect[r].selected /\ connect'[r].late = connect[r].late
    BY <1>3 DEF Inv, TypeOK
  <2> QED
    BY <2>1 DEF ReadAccounts, Same, Inv, db, ConnectInv, Owner, MayConnect, Disc, Consumed
<1>5. lock' \in [Discoveries -> Connects \cup {none}]
  BY DEF ReadAccounts, Inv, TypeOK
<1> QED
  BY <1>1, <1>2, <1>4, <1>5, ConnectMoves DEF ReadAccounts, Same

-----------------------------------------------------------------------------
(* The writes of a connect *)

LEMMA WriteStep ==
  ASSUME Inv, NEW r \in Connects, ConnectWrite(r)
  PROVE  Inv'
<1> DEFINE c == connect[r].client
           d == connect[r].disc
           q == [connect[r] EXCEPT !.pc = "committed"]
<1>1. /\ ConnectInv(r) /\ connect[r].pc = "write" /\ Owner(r) /\ ~connect[r].late
      /\ c \in Clients /\ d \in Discoveries /\ connect[r].user \in Users
      /\ connect[r].selected \in SUBSET Assets /\ connect[r].selected # {}
      /\ discoveries[d].key # "unused" /\ discoveries[d].client = c
      /\ consumption[d] = {}
  BY DEF ConnectWrite, Inv, ConnectInv, TypeOK, UniqueViolation, Consumed, Owner, Disc
<1>2. /\ account' = [account EXCEPT ![c] = [a \in Assets |->
           IF a \in connect[r].selected THEN "ACTIVE" ELSE account[c][a]]]
      /\ credential' = [credential EXCEPT ![c] = [a \in Assets |->
           IF a \in connect[r].selected THEN d ELSE credential[c][a]]]
      /\ consumption' = [consumption EXCEPT ![d] = connect[r].selected]
      /\ connections' = connections \cup {<<d, r>>}
      /\ connect' = [connect EXCEPT ![r] = q]
      /\ UNCHANGED <<editors, states, discoveries, lock, answered, callback>>
  BY DEF ConnectWrite, Go, redis
<1>3. q \in Locals
  <2>1. connect[r] \in Locals
    BY DEF Inv, TypeOK, Locals, Places
  <2> QED
    BY <2>1 DEF Locals, Places
<1>4. /\ \A e \in Discoveries : consumption'[e] = IF e = d THEN connect[r].selected ELSE consumption[e]
      /\ \A b \in Clients, a \in Assets :
           /\ account'[b][a] = IF b = c /\ a \in connect[r].selected
                               THEN "ACTIVE" ELSE account[b][a]
           /\ credential'[b][a] = IF b = c /\ a \in connect[r].selected
                                  THEN d ELSE credential[b][a]
      /\ \A v \in Connects : connect'[v] = IF v = r THEN q ELSE connect[v]
  BY <1>1, <1>2 DEF Inv, TypeOK
<1>5. TypeOK'
  <2>1. account' \in [Clients -> [Assets -> Status]]
    BY <1>1, <1>2 DEF Inv, TypeOK, Status
  <2>2. credential' \in [Clients -> [Assets -> Discoveries \cup {none}]]
    BY <1>1, <1>2 DEF Inv, TypeOK
  <2>3. connect' \in [Connects -> Locals]
    BY <1>2, <1>3 DEF Inv, TypeOK, Locals, Places
  <2>4. /\ consumption' \in [Discoveries -> SUBSET Assets]
        /\ connections' \subseteq Discoveries \X Connects
    BY <1>1, <1>2 DEF Inv, TypeOK
  <2> QED
    BY <1>2, <2>1, <2>2, <2>3, <2>4 DEF Inv, TypeOK, Locals, Places
<1>6. StateInv' /\ StateUsedOnce'
  BY <1>2 DEF Inv, StateInv, StateUsedOnce
<1>7. ConsumptionInv' /\ ConsumedOnce'
  <2>1. answered[d] = {} /\ \A p \in connections : p[1] # d
    BY <1>1 DEF Inv, ConsumptionInv
  <2>2. ConsumptionInv'
    <3> SUFFICES ASSUME NEW e \in Discoveries
                 PROVE  /\ consumption'[e] # {} => discoveries'[e].key # "unused"
                        /\ consumption'[e] = {} => /\ answered'[e] = {}
                                                   /\ \A p \in connections' : p[1] # e
      BY DEF ConsumptionInv
    <3> QED
      BY <1>1, <1>2, <1>4 DEF Inv, ConsumptionInv
  <2>3. ConsumedOnce'
    <3> SUFFICES ASSUME NEW e \in Discoveries
                 PROVE  /\ \A p, z \in connections' : p[1] = e /\ z[1] = e => p = z
                        /\ answered'[e] \subseteq {consumption'[e]}
      BY DEF ConsumedOnce
    <3> QED
      BY <1>1, <1>2, <1>4, <2>1 DEF Inv, ConsumedOnce
  <2> QED
    BY <2>2, <2>3
<1>8. TokensBelong'
  <2> SUFFICES ASSUME NEW b \in Clients, NEW a \in Assets
               PROVE  /\ account'[b][a] = "ACTIVE" => credential'[b][a] # none
                      /\ account'[b][a] \in {"ABSENT", "DISCONNECTED"} => credential'[b][a] = none
                      /\ credential'[b][a] # none =>
                           /\ discoveries'[credential'[b][a]].client = b
                           /\ a \in consumption'[credential'[b][a]]
    BY DEF TokensBelong
  <2>1. CASE b = c /\ a \in connect[r].selected
    BY <1>1, <1>2, <1>4, <2>1, ConstantsAssumption
  <2>2. CASE ~(b = c /\ a \in connect[r].selected)
    <3>1. account'[b][a] = account[b][a] /\ credential'[b][a] = credential[b][a]
      BY <1>4, <2>2
    <3>2. credential[b][a] # none => credential[b][a] \in Discoveries
      BY DEF Inv, TypeOK
    <3>3. credential[b][a] # none => credential[b][a] # d
      BY <1>1 DEF Inv, TokensBelong
    <3> QED
      BY <1>2, <1>4, <3>1, <3>2, <3>3 DEF Inv, TokensBelong
  <2> QED
    BY <2>1, <2>2
<1>9. ASSUME NEW v \in Connects PROVE ConnectInv(v)'
  <2>1. ConnectInv(v)
    BY DEF Inv
  <2>2. CASE v = r
    <3>1. /\ connect'[v].pc = "committed" /\ connect'[v].user = connect[r].user
          /\ connect'[v].client = c /\ connect'[v].disc = d
          /\ connect'[v].selected = connect[r].selected /\ ~connect'[v].late
      <4>1. connect'[v] = q /\ connect[r] \in Locals
        BY <1>4, <2>2 DEF Inv, TypeOK, Locals, Places
      <4> QED
        BY <1>1, <4>1 DEF Locals
    <3> QED
      BY <1>1, <1>2, <1>4, <3>1 DEF ConnectInv, Disc, Consumed
  <2>3. CASE v # r /\ connect[v].pc # "idle"
    <3>1. connect'[v] = connect[v] /\ connect[v].disc \in Discoveries
      BY <1>4, <2>1, <2>3 DEF ConnectInv
    <3>2. Disc(v)' = Disc(v)
      BY <1>2, <3>1 DEF Disc
    <3>4. consumption'[connect[v].disc] = consumption[connect[v].disc]
            \/ (consumption[connect[v].disc] = {} /\ consumption'[connect[v].disc] # {})
      <4>1. ASSUME NEW e \in Discoveries
            PROVE  consumption'[e] = consumption[e] \/ (consumption[e] = {} /\ consumption'[e] # {})
        <5>1. consumption'[e] = IF e = d THEN connect[r].selected ELSE consumption[e]
          BY <1>4
        <5> QED
          BY <1>1, <5>1
      <4> QED
        BY <3>1, <4>1
    <3>5. Consumed(v)' = Consumed(v) \/ (Consumed(v) = {} /\ Consumed(v)' # {})
      BY <3>1, <3>4 DEF Consumed
    <3>3. editors' = editors
      BY <1>2
    <3> QED
      BY <2>1, <2>3, <3>1, <3>2, <3>3, <3>5 DEF ConnectInv, Owner, MayConnect
  <2>4. CASE v # r /\ connect[v].pc = "idle"
    BY <1>4, <2>4 DEF ConnectInv
  <2> QED
    BY <2>2, <2>3, <2>4
<1> QED
  BY <1>5, <1>6, <1>7, <1>8, <1>9 DEF Inv

LEMMA CleanUpStep ==
  ASSUME Inv, NEW r \in Connects, CleanUp(r)
  PROVE  Inv'
<1> DEFINE d == connect[r].disc
           q == [connect[r] EXCEPT !.pc = "done"]
<1>1. /\ ConnectInv(r) /\ d \in Discoveries /\ connect[r].selected \in SUBSET Assets
      /\ connect[r].selected # {} /\ consumption[d] = connect[r].selected
      /\ discoveries[d].key # "unused"
  BY DEF CleanUp, Inv, ConnectInv, TypeOK, Consumed, Disc
<1>2. /\ answered' = [answered EXCEPT ![d] = @ \cup {connect[r].selected}]
      /\ connect' = [connect EXCEPT ![r] = q]
      /\ UNCHANGED <<editors, states, lock, consumption, account, credential,
                     callback, connections>>
  BY DEF CleanUp, Go
<1>3. /\ discoveries' \in [Discoveries ->
           [key: {"unused", "stored", "gone"}, from: States \cup {none},
            user: Users \cup {none}, client: Clients \cup {none}, assets: SUBSET Assets]]
      /\ \A e \in Discoveries : SameDiscovery(e)
  <2>1. CASE discoveries' = discoveries
    BY <2>1 DEF Inv, TypeOK, SameDiscovery
  <2>2. CASE discoveries' = [discoveries EXCEPT ![d].key = "gone"]
    BY <1>1, <2>2, DiscoveryGone
  <2> QED
    BY <2>1, <2>2 DEF CleanUp
<1>4. connect' \in [Connects -> Locals] /\ \A v \in Connects \ {r} : connect'[v] = connect[v]
  <2>1. connect[r] \in Locals
    BY DEF Inv, TypeOK, Locals, Places
  <2>2. q \in Locals
    BY <2>1 DEF Locals, Places
  <2> QED
    BY <1>2, <2>2 DEF Inv, TypeOK, Locals, Places
<1>5. TypeOK'
  BY <1>1, <1>2, <1>3, <1>4 DEF Inv, TypeOK, Locals, Places
<1>6. StateInv' /\ StateUsedOnce' /\ TokensBelong'
  BY <1>2, <1>3, DiscoveriesKept
<1>7. ConsumptionInv' /\ ConsumedOnce'
  <2>1. \A e \in Discoveries :
          answered'[e] = IF e = d THEN answered[e] \cup {connect[r].selected} ELSE answered[e]
    BY <1>1, <1>2 DEF Inv, TypeOK
  <2>2. ConsumptionInv'
    BY <1>1, <1>2, <1>3, <2>1 DEF Inv, SameDiscovery, ConsumptionInv
  <2>3. ConsumedOnce'
    BY <1>1, <1>2, <2>1 DEF Inv, ConsumedOnce
  <2> QED
    BY <2>2, <2>3
<1>8. ASSUME NEW v \in Connects PROVE ConnectInv(v)'
  <2>1. ConnectInv(v)
    BY DEF Inv
  <2>2. CASE v = r
    <3>1. /\ connect'[v].pc = "done" /\ connect'[v].user = connect[v].user
          /\ connect'[v].client = connect[v].client /\ connect'[v].disc = connect[v].disc
          /\ connect'[v].selected = connect[v].selected /\ connect'[v].late = connect[v].late
          /\ connect[v].pc # "idle"
      BY <1>2, <2>2 DEF Inv, TypeOK, CleanUp
    <3> QED
      BY <1>1, <1>2, <1>3, <2>1, <3>1 DEF ConnectInv, Disc, Consumed, SameDiscovery
  <2>3. CASE v # r
    BY <1>2, <1>3, <1>4, <2>1, <2>3 DEF ConnectInv, Owner, MayConnect, Disc, Consumed, SameDiscovery
  <2> QED
    BY <2>2, <2>3
<1> QED
  BY <1>5, <1>6, <1>7, <1>8 DEF Inv


-----------------------------------------------------------------------------
(* The others *)

(* A step that leaves the connects where they are, and every discovery with
   its tenant and its consumption. *)
LEMMA ConnectsKept ==
  ASSUME Inv, editors' \subseteq editors, \A e \in Discoveries : SameDiscovery(e),
         UNCHANGED <<connect, consumption>>
  PROVE  \A r \in Connects : ConnectInv(r)'
BY DEF Inv, ConnectInv, Owner, MayConnect, Disc, Consumed, SameDiscovery

(* A state keeps its tenant, and once it is gone it stays gone. *)
SameState(t) ==
  /\ states'[t].user = states[t].user
  /\ states'[t].client = states[t].client
  /\ states'[t].key = "unused" <=> states[t].key = "unused"
  /\ states[t].key = "gone" => states'[t].key = "gone"

LEMMA OneStateChanges ==
  ASSUME Inv, NEW s \in States, states[s].key # "unused",
         states' = [states EXCEPT ![s].key = "gone"] \/ states' = states
  PROVE  /\ states' \in [States -> [key: {"unused", "stored", "gone"},
                            user: Users \cup {none}, client: Clients \cup {none}]]
         /\ \A t \in States : SameState(t)
<1> DEFINE Record == [key: {"unused", "stored", "gone"},
                      user: Users \cup {none}, client: Clients \cup {none}]
<1>1. states \in [States -> Record]
  BY DEF Inv, TypeOK
<1>2. CASE states' = states
  <2>1. states' \in [States -> Record]
    BY <1>1, <1>2
  <2>2. \A t \in States : states'[t] = states[t]
    BY <1>2
  <2> QED
    BY <2>1, <2>2 DEF SameState
<1>3. CASE states' = [states EXCEPT ![s].key = "gone"]
  <2>1. [states[s] EXCEPT !.key = "gone"] \in Record
    BY <1>1
  <2>2. states' \in [States -> Record]
    BY <1>1, <1>3, <2>1
  <2>3. \A t \in States : states'[t] = IF t = s THEN [states[s] EXCEPT !.key = "gone"] ELSE states[t]
    BY <1>1, <1>3
  <2>4. ASSUME NEW t \in States
        PROVE  SameState(t)
    <3>1. states[t] \in Record
      BY <1>1
    <3>2. CASE t = s
      <4>1. states'[t] = [states[t] EXCEPT !.key = "gone"]
        BY <2>3, <3>2
      <4> QED
        BY <3>1, <3>2, <4>1 DEF SameState
    <3>3. CASE t # s
      <4>1. states'[t] = states[t]
        BY <2>3, <3>3
      <4> QED
        BY <4>1 DEF SameState
    <3> QED
      BY <3>2, <3>3
  <2> QED
    BY <2>2, <2>4
<1> QED
  BY <1>2, <1>3

LEMMA TakeStep ==
  ASSUME Inv, NEW b \in Callbacks, NEW u \in Users, NEW s \in States, CallbackTake(b, u, s)
  PROVE  Inv'
<1>1. /\ states[s].key = "stored" /\ callback[b] = none
      /\ states' = [states EXCEPT ![s].key = "gone"]
      /\ callback' = [callback EXCEPT ![b] = s] \/ callback' = callback
      /\ UNCHANGED <<editors, discoveries, lock, consumption, account, credential,
                     answered, connections, connect>>
  BY DEF CallbackTake, db
<1>2. /\ states' \in [States -> [key: {"unused", "stored", "gone"},
                            user: Users \cup {none}, client: Clients \cup {none}]]
      /\ \A t \in States : SameState(t)
  BY <1>1, OneStateChanges
<1>3. states'[s].key = "gone"
  BY <1>1 DEF Inv, TypeOK
<1>4. callback' \in [Callbacks -> States \cup {none}]
  BY <1>1 DEF Inv, TypeOK
<1>5. TypeOK'
  BY <1>1, <1>2, <1>4 DEF Inv, TypeOK
<1>6. StateUsedOnce' /\ ConsumptionInv' /\ ConsumedOnce' /\ TokensBelong'
  BY <1>1 DEF Inv, StateUsedOnce, ConsumptionInv, ConsumedOnce, TokensBelong
<1>7. StateInv'
  <2>0. /\ \A d \in Discoveries : discoveries[d].from \in States \cup {none}
        /\ callback \in [Callbacks -> States \cup {none}]
        /\ s # none /\ states[s].key # "gone"
    BY <1>1, ConstantsAssumption DEF Inv, TypeOK
  <2>1. /\ \A d \in Discoveries : discoveries[d].from # s /\ discoveries[d].from \in States \cup {none}
        /\ \A e \in Callbacks : callback[e] # s /\ callback[e] \in States \cup {none}
    BY <2>0 DEF Inv, StateInv
  <2>2. ASSUME NEW e \in Callbacks
        PROVE  callback'[e] = callback[e] \/ (e = b /\ callback'[e] = s)
    <3>1. CASE callback' = [callback EXCEPT ![b] = s]
      BY <2>0, <3>1
    <3>2. CASE callback' = callback
      BY <3>2
    <3> QED
      BY <1>1, <3>1, <3>2
  <2>3. \A t \in States : states'[t].key # "unused" =>
          states'[t].user \in Users /\ states'[t].client \in Clients
    BY <1>2 DEF Inv, StateInv, SameState
  <2>4. \A d \in Discoveries :
          /\ discoveries'[d].key = "unused" <=> discoveries'[d].from = none
          /\ discoveries'[d].from # none => states'[discoveries'[d].from].key = "gone"
    BY <1>1, <1>2, <2>1 DEF Inv, StateInv, SameState
  <2>5. ASSUME NEW e \in Callbacks, callback'[e] # none
        PROVE  /\ states'[callback'[e]].key = "gone"
               /\ \A d \in Discoveries : discoveries'[d].from # callback'[e]
    <3>1. CASE callback'[e] = callback[e]
      BY <1>1, <1>2, <2>1, <2>5, <3>1 DEF Inv, StateInv, SameState
    <3>2. CASE callback'[e] = s
      BY <1>1, <1>3, <2>1, <3>2
    <3> QED
      BY <2>2, <3>1, <3>2
  <2>6. \A e, g \in Callbacks : callback'[e] # none /\ callback'[e] = callback'[g] => e = g
    BY <2>1, <2>2 DEF Inv, StateInv
  <2> QED
    BY <2>3, <2>4, <2>5, <2>6 DEF StateInv
<1>8. \A r \in Connects : ConnectInv(r)'
  BY <1>1 DEF Inv, ConnectInv, Owner, MayConnect, Disc, Consumed
<1> QED
  BY <1>5, <1>6, <1>7, <1>8 DEF Inv

LEMMA DropStep ==
  ASSUME Inv, NEW s \in States, StateDropped(s)
  PROVE  Inv'
<1>1. /\ states[s].key # "unused"
      /\ states' = [states EXCEPT ![s].key = "gone"]
      /\ UNCHANGED <<editors, discoveries, lock, consumption, account, credential,
                     answered, connections, callback, connect>>
  BY DEF StateDropped, db
<1>2. /\ states' \in [States -> [key: {"unused", "stored", "gone"},
                            user: Users \cup {none}, client: Clients \cup {none}]]
      /\ \A t \in States : SameState(t)
  BY <1>1, OneStateChanges
<1>3. TypeOK'
  BY <1>1, <1>2 DEF Inv, TypeOK
<1>4. StateUsedOnce' /\ ConsumptionInv' /\ ConsumedOnce' /\ TokensBelong'
  BY <1>1 DEF Inv, StateUsedOnce, ConsumptionInv, ConsumedOnce, TokensBelong
<1>5. StateInv'
  <2>1. /\ \A d \in Discoveries : discoveries[d].from \in States \cup {none}
        /\ \A e \in Callbacks : callback[e] \in States \cup {none}
    BY DEF Inv, TypeOK
  <2> QED
    BY <1>1, <1>2, <2>1 DEF Inv, StateInv, SameState
<1>6. \A r \in Connects : ConnectInv(r)'
  BY <1>1 DEF Inv, ConnectInv, Owner, MayConnect, Disc, Consumed
<1> QED
  BY <1>3, <1>4, <1>5, <1>6 DEF Inv

LEMMA AuthorizeStep ==
  ASSUME Inv, NEW u \in Users, NEW c \in Clients, NEW s \in States, Authorize(u, c, s)
  PROVE  Inv'
<1>1. /\ states[s].key = "unused"
      /\ states' = [states EXCEPT ![s] = [key |-> "stored", user |-> u, client |-> c]]
      /\ UNCHANGED <<editors, discoveries, lock, consumption, account, credential,
                     answered, connections, callback, connect>>
  BY DEF Authorize, db
<1>2. \A t \in States : states'[t] = IF t = s THEN [key |-> "stored", user |-> u, client |-> c]
                                  ELSE states[t]
  BY <1>1 DEF Inv, TypeOK
<1>3. TypeOK'
  BY <1>1 DEF Inv, TypeOK
<1>4. StateUsedOnce' /\ ConsumptionInv' /\ ConsumedOnce' /\ TokensBelong'
  BY <1>1 DEF Inv, StateUsedOnce, ConsumptionInv, ConsumedOnce, TokensBelong
<1>5. StateInv'
  <2>1. /\ \A d \in Discoveries : discoveries[d].from \in States \cup {none}
        /\ \A e \in Callbacks : callback[e] \in States \cup {none}
    BY DEF Inv, TypeOK
  <2> QED
    BY <1>1, <1>2, <2>1 DEF Inv, StateInv
<1>6. \A r \in Connects : ConnectInv(r)'
  BY <1>1 DEF Inv, ConnectInv, Owner, MayConnect, Disc, Consumed
<1> QED
  BY <1>3, <1>4, <1>5, <1>6 DEF Inv

LEMMA CallbackFailsStep ==
  ASSUME Inv, NEW b \in Callbacks, CallbackFails(b)
  PROVE  Inv'
<1>1. /\ callback' = [callback EXCEPT ![b] = none]
      /\ UNCHANGED <<editors, states, discoveries, lock, consumption, account, credential,
                     answered, connections, connect>>
  BY DEF CallbackFails, redis, db
<1>2. TypeOK'
  BY <1>1 DEF Inv, TypeOK
<1>3. StateInv'
  <2>1. \A e \in Callbacks : callback'[e] = none \/ callback'[e] = callback[e]
    BY <1>1 DEF Inv, TypeOK
  <2> QED
    BY <1>1, <2>1 DEF Inv, StateInv
<1>4. StateUsedOnce' /\ ConsumptionInv' /\ ConsumedOnce' /\ TokensBelong'
  BY <1>1 DEF Inv, StateUsedOnce, ConsumptionInv, ConsumedOnce, TokensBelong
<1>5. \A r \in Connects : ConnectInv(r)'
  BY <1>1 DEF Inv, ConnectInv, Owner, MayConnect, Disc, Consumed
<1> QED
  BY <1>2, <1>3, <1>4, <1>5 DEF Inv

LEMMA StoreStep ==
  ASSUME Inv, NEW b \in Callbacks, NEW d \in Discoveries, NEW found \in SUBSET Assets,
         CallbackStore(b, d, found)
  PROVE  Inv'
<1> DEFINE s == callback[b]
           q == [key |-> "stored", from |-> s, user |-> states[s].user,
                 client |-> states[s].client, assets |-> found]
<1>1. /\ s # none /\ s \in States /\ states[s].key = "gone"
      /\ states[s].user \in Users \cup {none} /\ states[s].client \in Clients \cup {none}
      /\ \A e \in Discoveries : discoveries[e].from # s
      /\ \A e \in Callbacks : callback[e] = s => e = b
  BY DEF CallbackStore, Inv, TypeOK, StateInv
<1>a. Found(s, found) = q
  BY DEF Found
<1>2. /\ discoveries[d].key = "unused" /\ consumption[d] = {}
      /\ discoveries' = [discoveries EXCEPT ![d] = q]
      /\ callback' = [callback EXCEPT ![b] = none]
      /\ UNCHANGED <<editors, states, lock, consumption, account, credential,
                     answered, connections, connect>>
  BY <1>a DEF CallbackStore, db, Inv, ConsumptionInv
<1>3. \A e \in Discoveries : discoveries'[e] = IF e = d THEN q ELSE discoveries[e]
  BY <1>2 DEF Inv, TypeOK
<1>4. \A e \in Callbacks : callback'[e] = IF e = b THEN none ELSE callback[e]
  BY <1>2 DEF Inv, TypeOK
<1>5. TypeOK'
  <2>1. q \in [key: {"unused", "stored", "gone"}, from: States \cup {none},
               user: Users \cup {none}, client: Clients \cup {none}, assets: SUBSET Assets]
    BY <1>1
  <2> QED
    BY <1>2, <2>1 DEF Inv, TypeOK
<1>6. StateInv'
  <2>1. \A t \in States : states'[t].key # "unused" =>
          states'[t].user \in Users /\ states'[t].client \in Clients
    BY <1>2 DEF Inv, StateInv
  <2>2. ASSUME NEW e \in Discoveries
        PROVE  /\ discoveries'[e].key = "unused" <=> discoveries'[e].from = none
               /\ discoveries'[e].from # none => states'[discoveries'[e].from].key = "gone"
    <3>1. CASE e = d
      BY <1>1, <1>2, <1>3, <3>1
    <3>2. CASE e # d
      <4>1. discoveries'[e] = discoveries[e]
        BY <1>3, <3>2
      <4> QED
        BY <1>2, <4>1 DEF Inv, StateInv
    <3> QED
      BY <3>1, <3>2
  <2>3. ASSUME NEW e \in Callbacks, callback'[e] # none
        PROVE  /\ states'[callback'[e]].key = "gone"
               /\ \A g \in Discoveries : discoveries'[g].from # callback'[e]
    <3>1. e # b /\ callback'[e] = callback[e] /\ callback[e] # s
      BY <1>1, <1>4, <2>3
    <3>2. ASSUME NEW g \in Discoveries PROVE discoveries'[g].from # callback'[e]
      <4>1. CASE g = d
        BY <1>3, <3>1, <4>1
      <4>2. CASE g # d
        BY <1>3, <2>3, <3>1, <4>2 DEF Inv, StateInv
      <4> QED
        BY <4>1, <4>2
    <3> QED
      BY <1>2, <2>3, <3>1, <3>2 DEF Inv, StateInv
  <2>4. \A e, g \in Callbacks : callback'[e] # none /\ callback'[e] = callback'[g] => e = g
    BY <1>4 DEF Inv, StateInv
  <2> QED
    BY <2>1, <2>2, <2>3, <2>4 DEF StateInv
<1>7. StateUsedOnce'
  <2> SUFFICES ASSUME NEW e \in Discoveries, NEW g \in Discoveries,
                      discoveries'[e].from # none, discoveries'[e].from = discoveries'[g].from
               PROVE  e = g
    BY DEF StateUsedOnce
  <2>1. \A x \in Discoveries : x # d => discoveries'[x].from = discoveries[x].from
    BY <1>3
  <2>2. discoveries'[d].from = s
    BY <1>3
  <2> QED
    BY <1>1, <2>1, <2>2 DEF Inv, StateUsedOnce
<1>8. ConsumptionInv' /\ ConsumedOnce'
  <2>1. \A e \in Discoveries : consumption[e] # {} => discoveries'[e].key # "unused"
    BY <1>2, <1>3 DEF Inv, ConsumptionInv
  <2> QED
    BY <1>2, <2>1 DEF Inv, ConsumptionInv, ConsumedOnce
<1>9. TokensBelong'
  <2> SUFFICES ASSUME NEW c \in Clients, NEW a \in Assets, credential[c][a] # none
               PROVE  discoveries'[credential[c][a]].client = c
    BY <1>2 DEF Inv, TokensBelong
  <2>1. credential[c][a] \in Discoveries /\ consumption[credential[c][a]] # {}
    BY DEF Inv, TypeOK, TokensBelong
  <2> QED
    BY <1>2, <1>3, <2>1 DEF Inv, TokensBelong
<1>10. ASSUME NEW r \in Connects PROVE ConnectInv(r)'
  <2>1. ConnectInv(r)
    BY DEF Inv
  <2>2. connect[r].pc # "idle" => connect[r].disc \in Discoveries /\ connect[r].disc # d
    BY <1>2, <2>1 DEF ConnectInv, Disc
  <2>3. connect[r].pc # "idle" => Disc(r)' = Disc(r)
    BY <1>2, <1>3, <2>2 DEF Disc
  <2> QED
    BY <1>2, <2>1, <2>3 DEF ConnectInv, Owner, MayConnect, Consumed
<1> QED
  BY <1>5, <1>6, <1>7, <1>8, <1>9, <1>10 DEF Inv

(* A query deletes what its TTL would delete. *)
LEMMA QueryExpires ==
  ASSUME NEW d, NEW u, NEW c, Query(u, c, d)
  PROVE  DiscoveryExpires(d)
<1> QED
  BY DEF Query, DiscoveryExpires

LEMMA ExpireStep ==
  ASSUME Inv, NEW d \in Discoveries, LockExpires(d) \/ DiscoveryExpires(d)
  PROVE  Inv'
<1>1. UNCHANGED <<editors, states, consumption, account, credential, answered,
                  connections, callback, connect>>
  BY DEF LockExpires, DiscoveryExpires, Same, db
<1>2. /\ discoveries' \in [Discoveries ->
           [key: {"unused", "stored", "gone"}, from: States \cup {none},
            user: Users \cup {none}, client: Clients \cup {none}, assets: SUBSET Assets]]
      /\ \A e \in Discoveries : SameDiscovery(e)
  <2>1. CASE LockExpires(d)
    BY <2>1 DEF LockExpires, Inv, TypeOK, SameDiscovery
  <2>2. CASE DiscoveryExpires(d)
    BY <2>2, DiscoveryGone DEF DiscoveryExpires
  <2> QED
    BY <2>1, <2>2
<1>3. lock' \in [Discoveries -> Connects \cup {none}]
  BY DEF LockExpires, DiscoveryExpires, Inv, TypeOK
<1>4. TypeOK'
  BY <1>1, <1>2, <1>3 DEF Inv, TypeOK
<1>5. StateInv' /\ StateUsedOnce' /\ TokensBelong'
  BY <1>1, <1>2, DiscoveriesKept
<1>6. ConsumptionInv' /\ ConsumedOnce'
  BY <1>1, <1>2 DEF Inv, SameDiscovery, ConsumptionInv, ConsumedOnce
<1>7. \A r \in Connects : ConnectInv(r)'
  BY <1>1, <1>2, ConnectsKept
<1> QED
  BY <1>4, <1>5, <1>6, <1>7 DEF Inv

LEMMA RevokeStep ==
  ASSUME Inv, NEW u \in Users, NEW c \in Clients, Revoke(u, c)
  PROVE  Inv'
<1>1. /\ editors' \subseteq editors
      /\ UNCHANGED <<states, discoveries, lock, consumption, account, credential,
                     answered, connections, callback, connect>>
  BY DEF Revoke, redis, db
<1>2. TypeOK'
  BY <1>1 DEF Inv, TypeOK
<1>3. StateInv' /\ StateUsedOnce' /\ ConsumptionInv' /\ ConsumedOnce' /\ TokensBelong'
  BY <1>1 DEF Inv, StateInv, StateUsedOnce, ConsumptionInv, ConsumedOnce, TokensBelong
<1>4. \A r \in Connects : ConnectInv(r)'
  BY <1>1, ConnectsKept DEF SameDiscovery
<1> QED
  BY <1>2, <1>3, <1>4 DEF Inv

(* A step on the accounts leaves the rest as it was. *)
LEMMA AccountsAside ==
  ASSUME Inv, TypeOK', TokensBelong',
         UNCHANGED <<states, discoveries, lock, consumption, answered, connections,
                     callback, connect, editors>>
  PROVE  Inv'
<1>1. StateInv' /\ StateUsedOnce' /\ ConsumptionInv' /\ ConsumedOnce'
  BY DEF Inv, StateInv, StateUsedOnce, ConsumptionInv, ConsumedOnce
<1>2. \A r \in Connects : ConnectInv(r)'
  BY ConnectsKept DEF SameDiscovery
<1> QED
  BY <1>1, <1>2 DEF Inv

LEMMA AccountStep ==
  ASSUME Inv, NEW c \in Clients, NEW a \in Assets,
         Expire(c, a) \/ \E u \in Users : Disconnect(u, c, a)
  PROVE  Inv'
<1>1. /\ account[c][a] # "ABSENT"
      /\ UNCHANGED <<states, discoveries, lock, consumption, answered, connections,
                     callback, connect, editors>>
  BY DEF Expire, Disconnect, redis
<1>2. CASE Expire(c, a)
  <2>1. /\ account' = [account EXCEPT ![c][a] = "EXPIRED"] /\ credential' = credential
    BY <1>2 DEF Expire
  <2>2. TypeOK'
    BY <1>1, <2>1 DEF Inv, TypeOK, Status
  <2>3. \A x \in Clients, y \in Assets :
          account'[x][y] = IF x = c /\ y = a THEN "EXPIRED" ELSE account[x][y]
    BY <2>1 DEF Inv, TypeOK
  <2>4. TokensBelong'
    BY <1>1, <2>1, <2>3 DEF Inv, TokensBelong
  <2> QED
    BY <1>1, <2>2, <2>4, AccountsAside
<1>3. CASE \E u \in Users : Disconnect(u, c, a)
  <2>1. /\ account' = [account EXCEPT ![c][a] = "DISCONNECTED"]
        /\ credential' = [credential EXCEPT ![c][a] = none]
    BY <1>3 DEF Disconnect
  <2>2. TypeOK'
    BY <1>1, <2>1 DEF Inv, TypeOK, Status
  <2>3. \A x \in Clients, y \in Assets :
          /\ account'[x][y] = IF x = c /\ y = a THEN "DISCONNECTED" ELSE account[x][y]
          /\ credential'[x][y] = IF x = c /\ y = a THEN none ELSE credential[x][y]
    BY <2>1 DEF Inv, TypeOK
  <2>4. TokensBelong'
    BY <1>1, <2>1, <2>3 DEF Inv, TokensBelong
  <2> QED
    BY <1>1, <2>2, <2>4, AccountsAside
<1> QED
  BY <1>2, <1>3

-----------------------------------------------------------------------------
(* The theorems *)

LEMMA InitInv == Init => Inv
<1> SUFFICES ASSUME Init PROVE Inv
  OBVIOUS
<1>1. TypeOK
  BY DEF Init, TypeOK, NoState, NoDiscovery, Idle, Status
<1>2. StateInv
  BY DEF Init, StateInv, NoState, NoDiscovery
<1>3. StateUsedOnce /\ ConsumptionInv /\ ConsumedOnce /\ TokensBelong
  BY DEF Init, StateUsedOnce, NoDiscovery, ConsumptionInv, ConsumedOnce, TokensBelong
<1>4. \A r \in Connects : ConnectInv(r)
  BY DEF Init, ConnectInv, Idle
<1> QED
  BY <1>1, <1>2, <1>3, <1>4 DEF Inv

LEMMA NextInv == Inv /\ [Next]_vars => Inv'
<1> SUFFICES ASSUME Inv, [Next]_vars PROVE Inv'
  OBVIOUS
<1>1. CASE UNCHANGED vars
  <2>1. UNCHANGED <<editors, states, discoveries, lock, consumption, account, credential,
                    answered, connections, callback, connect>>
    BY <1>1 DEF vars, redis, db
  <2>2. TypeOK' /\ StateInv' /\ StateUsedOnce' /\ ConsumptionInv' /\ ConsumedOnce' /\ TokensBelong'
    BY <2>1 DEF Inv, TypeOK, StateInv, StateUsedOnce, ConsumptionInv, ConsumedOnce, TokensBelong
  <2>3. \A r \in Connects : ConnectInv(r)'
    BY <2>1, ConnectsKept DEF SameDiscovery
  <2> QED
    BY <2>2, <2>3 DEF Inv
<1>2. CASE \E b \in Callbacks : Callback(b)
  BY <1>2, TakeStep, CallbackFailsStep, StoreStep DEF Callback
<1>3. CASE \E r \in Connects : Connect(r)
  BY <1>3, LockStep, ReadStep, AccountsStep, WriteStep, CleanUpStep, IdleStep DEF Connect
<1>4. CASE Others
  BY <1>4, AuthorizeStep, DropStep, ExpireStep, QueryExpires, RevokeStep, AccountStep DEF Others
<1> QED
  BY <1>1, <1>2, <1>3, <1>4 DEF Next

LEMMA Invariant == Spec => []Inv
<1> QED
  BY InitInv, NextInv, PTL DEF Spec

(* Every variable keeps its type, whatever the handlers interleave. *)
THEOREM TypeCorrect == Spec => []TypeOK
<1>1. Inv => TypeOK
  BY DEF Inv
<1> QED
  BY <1>1, Invariant, PTL

(* A state that two callbacks carry is exchanged by one of them: GET and DEL in
   one script let no second callback find it (social-accounts.ts). *)
THEOREM StateExchangedOnce == Spec => []StateUsedOnce
<1>1. Inv => StateUsedOnce
  BY DEF Inv
<1> QED
  BY <1>1, Invariant, PTL

(* The unique index of the consumption, and not the lock in Redis, is what makes
   a discovery write its accounts once and answer 200 for one selection only. *)
THEOREM DiscoveryConsumedOnce == Spec => []ConsumedOnce
<1>1. Inv => ConsumedOnce
  BY DEF Inv
<1> QED
  BY <1>1, Invariant, PTL

(* Whatever connects, disconnects and expiries interleave, a token is kept for
   an account that may need it and comes from its client's own discovery. *)
THEOREM TokensStayWithTheirClient == Spec => []TokensBelong
<1>1. Inv => TokensBelong
  BY DEF Inv
<1> QED
  BY <1>1, Invariant, PTL

(* A connect repeated after its discovery was consumed finds the durable record
   before it asks Redis, and is never refused for want of the discovery. *)
THEOREM ConsumedConnectIsReplayed == Spec => []RetryIsReplayed
<1>1. Inv => RetryIsReplayed
  BY DEF Inv, ConnectInv, RetryIsReplayed
<1> QED
  BY <1>1, Invariant, PTL

=============================================================================
