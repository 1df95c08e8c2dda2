----------------------------- MODULE DoorProofs -----------------------------
(***************************************************************************)
(* The safety properties of Door, for any number of connections,           *)
(* credentials, tenants and tokens and any lifetimes.                      *)
(*                                                                         *)
(* IInv follows an identity from the credential it rests on to the session: *)
(* what backs it is said once (Backed), of a request past its roles and of *)
(* every token ever issued, and does not cease to be so, for it is about   *)
(* when something last held.  A request is kept apart from all others by   *)
(* the context its session is in, not by the loop.                         *)
(***************************************************************************)
EXTENDS Door, TLAPS

\* A user's roles are those of groups the user was in there, since the login began;
\* or none, if its group search failed.
RolesBacked(began, failed, id) ==
  IF failed
    THEN id.roles = {}
    ELSE \E g \in SUBSET Role : /\ id.roles = RolesFrom(g)
                                /\ lastHeld[id.user][id.tenant][g] >= began

\* id was made of a credential found valid in its tenant, with such roles.
Backed(cred, began, failed, id) ==
  /\ cred \in Cred /\ id.user = UidOf[cred]
  /\ Verify!MayBeYes(<<cred, id.tenant>>, began)
  /\ Authenticated(id)
  /\ RolesBacked(began, failed, id)

TokenSound(tok) ==
  /\ minted[tok] # None =>
       /\ login[tok] # None
       /\ Backed(login[tok].cred, login[tok].began, login[tok].failed, minted[tok].identity)
  /\ tokens[tok] # None =>
       /\ minted[tok] # None /\ tokens[tok].identity = minted[tok].identity
       /\ tokens[tok].expiry = minted[tok].wall + TokenTTL

\* What a request past its credential may rely on.
IdentitySound(r) ==
  /\ req[r].identity # None /\ req[r].identity.tenant = req[r].tenant
  /\ req[r].token = None => Backed(req[r].cred, req[r].began, req[r].failed, req[r].identity)
  /\ req[r].token # None => /\ minted[req[r].token] # None
                            /\ req[r].identity = minted[req[r].token].identity
                            /\ req[r].since <= minted[req[r].token].wall + TokenTTL

RequestSound(r) ==
  /\ req[r].stage # "idle" => /\ req[r].tenant # None
                              /\ (req[r].cred = None \/ req[r].token = None)
  /\ req[r].stage \in {"verify", "roles"} => req[r].cred # None
  /\ req[r].stage = "roles" => /\ Verify!MayBeYes(<<req[r].cred, req[r].tenant>>, req[r].began)
                               /\ req[r].began <= req[r].since
  /\ req[r].stage = "verify" => req[r].began <= clock
  /\ req[r].stage \in {"gate", "serving"} => IdentitySound(r)
  /\ req[r].stage = "serving" => /\ session[r] = req[r].identity
                                 /\ lastLive[req[r].tenant] > req[r].since - AdmitTTL

\* Nothing last was so in the future.
PastSound ==
  /\ \A k \in Key : lastValid[k] <= clock
  /\ \A t \in Tenant : lastLive[t] <= clock
  /\ \A u \in User, t \in Tenant : \A g \in SUBSET Role : lastHeld[u][t][g] <= clock

IInv ==
  /\ TypeOK /\ PastSound
  /\ \A tok \in Token : TokenSound(tok)
  /\ \A r \in Request : RequestSound(r)
-----------------------------------------------------------------------------
\* What was last so, was so then; what has been minted stays so.
Grows ==
  /\ \A k \in Key : lastValid'[k] >= lastValid[k]
  /\ \A t \in Tenant : lastLive'[t] >= lastLive[t]
  /\ \A u \in User, t \in Tenant : \A g \in SUBSET Role : lastHeld'[u][t][g] >= lastHeld[u][t][g]
  /\ \A tok \in Token : minted[tok] # None => /\ minted'[tok] = minted[tok]
                                              /\ login'[tok] = login[tok]

LEMMA NotNone ==
  /\ None \notin Request /\ None \notin Cred /\ None \notin Token /\ None \notin Tenant
  /\ None \notin Identity /\ None \notin Login
  /\ None \notin Store!Entry /\ None \notin Store!Birth
BY NoneAssumption, NoEntryAssumption

\* A credential that may pass for valid goes on to.
LEMMA ValidKept ==
  ASSUME TypeOK, TypeOK', Grows, NEW k \in Key, NEW asked \in Int, Verify!MayBeYes(k, asked)
  PROVE  Verify!MayBeYes(k, asked)'
<1>1. lastValid[k] \in Int /\ lastValid'[k] \in Int /\ lastValid'[k] >= lastValid[k]
  BY DEF TypeOK, Grows
<1> QED
  BY <1>1, TTLAssumption DEF Verify!MayBeYes

\* What backs an identity goes on to.
LEMMA BackedKept ==
  ASSUME TypeOK, TypeOK', Grows, NEW cred, NEW began \in Int, NEW failed \in BOOLEAN,
         NEW id \in Identity, Backed(cred, began, failed, id)
  PROVE  Backed(cred, began, failed, id)'
<1>1. cred \in Cred /\ id.tenant \in Tenant /\ id.user \in User /\ <<cred, id.tenant>> \in Key
  BY DEF Backed, Identity, Key
<1>2. Verify!MayBeYes(<<cred, id.tenant>>, began)'
  BY <1>1, ValidKept DEF Backed
<1>3. RolesBacked(began, failed, id)'
  <2>1. CASE failed
    BY <2>1 DEF Backed, RolesBacked
  <2>2. CASE ~failed
    <3>1. PICK g \in SUBSET Role : /\ id.roles = RolesFrom(g)
                                   /\ lastHeld[id.user][id.tenant][g] >= began
      BY <2>2 DEF Backed, RolesBacked
    <3>2. /\ lastHeld \in [User -> [Tenant -> [SUBSET Role -> Int]]]
          /\ lastHeld' \in [User -> [Tenant -> [SUBSET Role -> Int]]]
      BY DEF TypeOK
    <3>3. lastHeld'[id.user][id.tenant][g] >= lastHeld[id.user][id.tenant][g]
      BY <1>1, Zenon DEF Grows
    <3>4. lastHeld[id.user][id.tenant][g] \in Int /\ lastHeld'[id.user][id.tenant][g] \in Int
      BY <1>1, <3>2
    <3>5. lastHeld'[id.user][id.tenant][g] >= began
      BY <3>1, <3>3, <3>4
    <3> QED
      BY <2>2, <3>1, <3>5 DEF RolesBacked
  <2> QED
    BY <2>1, <2>2
<1> QED
  BY <1>1, <1>2, <1>3 DEF Backed, Authenticated

\* The types of a request and of what its token stands for.
LEMMA RequestTyped ==
  ASSUME TypeOK, NEW r \in Request
  PROVE  /\ req[r] \in RequestState /\ session[r] \in Identity \cup {None}
         /\ req[r].stage \in Stage /\ req[r].path \in Path
         /\ req[r].cred \in Cred \cup {None} /\ req[r].token \in Token \cup {None}
         /\ req[r].tenant \in Tenant \cup {None} /\ req[r].identity \in Identity \cup {None}
         /\ req[r].began \in Int /\ req[r].since \in Int /\ req[r].failed \in BOOLEAN
<1>1. req[r] \in RequestState /\ session[r] \in Identity \cup {None}
  BY DEF TypeOK
<1> QED
  BY <1>1, BoundAssumption DEF RequestState

LEMMA TokenTyped ==
  ASSUME TypeOK, NEW tok \in Token
  PROVE  /\ minted[tok] # None => /\ minted[tok] \in Store!Birth
                                  /\ minted[tok].identity \in Identity /\ minted[tok].wall \in Int
         /\ tokens[tok] # None => tokens[tok] \in Store!Entry
         /\ login[tok] # None => /\ login[tok].cred \in Cred /\ login[tok].began \in Int
                                 /\ login[tok].failed \in BOOLEAN
         /\ clock \in Int
<1>1. /\ minted[tok] \in Store!Birth \cup {None} /\ tokens[tok] \in Store!Entry \cup {None}
      /\ login[tok] \in Login \cup {None} /\ clock \in 0..MaxTime
  BY DEF TypeOK, Store!TypeOK
<1> QED
  BY <1>1, BoundAssumption DEF Store!Birth, Login

\* A request that does not move, and a session that is not touched, stay sound.
LEMMA RequestKept ==
  ASSUME IInv, TypeOK', Grows, clock' >= clock, NEW r \in Request, req'[r] = req[r],
         session'[r] = session[r]
  PROVE  RequestSound(r)'
<1>0. TypeOK /\ RequestSound(r)
  BY DEF IInv
<1>1. /\ req[r].cred \in Cred \cup {None} /\ req[r].token \in Token \cup {None}
      /\ req[r].tenant \in Tenant \cup {None} /\ req[r].identity \in Identity \cup {None}
      /\ req[r].began \in Int /\ req[r].since \in Int /\ req[r].failed \in BOOLEAN
  BY <1>0, RequestTyped
<1>2. req[r].stage = "roles" => Verify!MayBeYes(<<req[r].cred, req[r].tenant>>, req[r].began)'
  <2>1. SUFFICES ASSUME req[r].stage = "roles"
                 PROVE  Verify!MayBeYes(<<req[r].cred, req[r].tenant>>, req[r].began)'
    OBVIOUS
  <2>2. <<req[r].cred, req[r].tenant>> \in Key
    BY <1>0, <1>1, <2>1 DEF RequestSound, Key
  <2> QED
    BY <1>0, <1>1, <2>1, <2>2, ValidKept DEF RequestSound
<1>3. req[r].stage \in {"gate", "serving"} => IdentitySound(r)'
  <2>1. SUFFICES ASSUME req[r].stage \in {"gate", "serving"} PROVE IdentitySound(r)'
    OBVIOUS
  <2>2. IdentitySound(r) /\ req[r].identity \in Identity
    BY <1>0, <1>1, <2>1 DEF RequestSound, IdentitySound
  <2>3. req[r].token = None => Backed(req[r].cred, req[r].began, req[r].failed, req[r].identity)'
    BY <1>0, <1>1, <2>2, BackedKept DEF IdentitySound
  <2>4. req[r].token # None => minted'[req[r].token] = minted[req[r].token]
    BY <1>1, <2>2 DEF IdentitySound, Grows
  <2> QED
    BY <2>2, <2>3, <2>4 DEF IdentitySound
<1>4. req[r].stage = "serving" =>
        session[r] = req[r].identity /\ lastLive'[req[r].tenant] > req[r].since - AdmitTTL
  <2>1. SUFFICES ASSUME req[r].stage = "serving"
                 PROVE  session[r] = req[r].identity
                        /\ lastLive'[req[r].tenant] > req[r].since - AdmitTTL
    OBVIOUS
  <2>2. /\ session[r] = req[r].identity /\ req[r].tenant \in Tenant
        /\ lastLive[req[r].tenant] > req[r].since - AdmitTTL
    BY <1>0, <1>1, <2>1 DEF RequestSound
  <2>3. /\ lastLive[req[r].tenant] \in Int /\ lastLive'[req[r].tenant] \in Int
        /\ lastLive'[req[r].tenant] >= lastLive[req[r].tenant]
    BY <2>2 DEF TypeOK, IInv, Grows
  <2> QED
    BY <1>1, <2>2, <2>3, TTLAssumption
<1>5. req[r].stage = "verify" => req[r].began <= clock'
  <2>1. clock \in Int /\ clock' \in Int
    BY <1>0, BoundAssumption DEF TypeOK, Store!TypeOK
  <2> QED
    BY <1>0, <1>1, <2>1 DEF RequestSound
<1> QED
  BY <1>0, <1>2, <1>3, <1>4, <1>5 DEF RequestSound

\* Nor is a token touched by another's fate.
LEMMA TokenKept ==
  ASSUME IInv, TypeOK', Grows, NEW tok \in Token,
         minted'[tok] = minted[tok], login'[tok] = login[tok],
         tokens'[tok] \in {tokens[tok], None}
  PROVE  TokenSound(tok)'
<1>0. TypeOK /\ TokenSound(tok)
  BY DEF IInv
<1>1. minted[tok] # None =>
        /\ login[tok] # None /\ login[tok].began \in Int /\ login[tok].failed \in BOOLEAN
        /\ minted[tok].identity \in Identity
        /\ Backed(login[tok].cred, login[tok].began, login[tok].failed, minted[tok].identity)
  BY <1>0, TokenTyped DEF TokenSound
<1>2. minted[tok] # None =>
        Backed(login[tok].cred, login[tok].began, login[tok].failed, minted[tok].identity)'
  <2>1. SUFFICES ASSUME minted[tok] # None
                 PROVE  Backed(login[tok].cred, login[tok].began, login[tok].failed,
                               minted[tok].identity)'
    OBVIOUS
  <2> DEFINE c == login[tok].cred
             b == login[tok].began
             f == login[tok].failed
             i == minted[tok].identity
  <2>2. /\ b \in Int /\ f \in BOOLEAN /\ i \in Identity /\ Backed(c, b, f, i)
        /\ c' = c /\ b' = b /\ f' = f /\ i' = i
    BY <1>1, <2>1
  <2>3. ASSUME NEW cc, NEW bb \in Int, NEW ff \in BOOLEAN, NEW ii \in Identity,
               Backed(cc, bb, ff, ii)
        PROVE  Backed(cc, bb, ff, ii)'
    BY <1>0, <2>3, BackedKept
  <2> QED
    BY <2>2, <2>3
<1> QED
  BY <1>0, <1>1, <1>2 DEF TokenSound
-----------------------------------------------------------------------------
LEMMA Initially == Init => IInv
<1> SUFFICES ASSUME Init PROVE IInv
  OBVIOUS
<1>0. Never \in Int /\ Never <= 0
  BY DEF Never
<1>1. TypeOK
  <2>1. req \in [Request -> RequestState]
    BY BoundAssumption DEF Init, Idle, RequestState, Stage, Path
  <2>2. Store!TypeOK
    BY BoundAssumption DEF Init, Store!TypeOK
  <2>3. groups \in [User -> [Tenant -> SUBSET SUBSET Role]]
    <3>2. groups \in [User -> [Tenant -> {{{}}, {Role}}]]
      BY DEF Init
    <3>3. {{{}}, {Role}} \subseteq SUBSET SUBSET Role
      OBVIOUS
    <3> QED
      BY <3>2, <3>3
  <2>4. lastHeld \in [User -> [Tenant -> [SUBSET Role -> Int]]]
    BY <1>0 DEF Init
  <2> QED
    BY <2>1, <2>2, <2>3, <2>4, BoundAssumption DEF Init, TypeOK
<1>2. PastSound
  <2>1. \A u \in User, t \in Tenant : \A g \in SUBSET Role : lastHeld[u][t][g] <= clock
    BY <1>0 DEF Init
  <2>2. \A k \in Key : lastValid[k] <= clock
    BY DEF Init
  <2>3. \A t \in Tenant : lastLive[t] <= clock
    BY DEF Init
  <2> QED
    BY <2>1, <2>2, <2>3 DEF PastSound
<1>3. ASSUME NEW tok \in Token PROVE TokenSound(tok)
  BY DEF Init, TokenSound
<1>4. ASSUME NEW r \in Request PROVE RequestSound(r)
  <2>1. req[r].stage = "idle"
    BY DEF Init, Idle
  <2> QED
    BY <2>1 DEF RequestSound
<1> QED
  BY <1>1, <1>2, <1>3, <1>4 DEF IInv

\* The world changes, and time: the door's own state stays, the past grows.
LEMMA EnvironmentStep == ASSUME IInv, Environment PROVE IInv'
<1>0. /\ TypeOK /\ PastSound /\ clock \in 0..MaxTime /\ clock \in Int
      /\ lastValid \in [Key -> Int] /\ lastLive \in [Tenant -> Int]
      /\ lastHeld \in [User -> [Tenant -> [SUBSET Role -> Int]]]
      /\ groups \in [User -> [Tenant -> SUBSET SUBSET Role]]
      /\ valid \in SUBSET Key /\ live \in SUBSET Tenant /\ changes \in 0..MaxChanges
  <2>1. TypeOK /\ PastSound /\ Store!TypeOK
    BY DEF IInv, TypeOK
  <2>2. clock \in 0..MaxTime /\ clock \in Int
    BY <2>1, BoundAssumption DEF Store!TypeOK
  <2> QED
    BY <2>1, <2>2 DEF TypeOK
<1>1. UNCHANGED <<loop, req, session, tokens, minted, refused, login>>
  BY DEF Environment, Revoke, Reinstate, Edit, Suspend, Resume, Tick, store
<1>2. /\ clock' \in 0..MaxTime /\ clock' >= clock
      /\ valid' \in SUBSET Key /\ live' \in SUBSET Tenant /\ changes' \in 0..MaxChanges
  BY <1>0, BoundAssumption
     DEF Environment, Revoke, Reinstate, Edit, Suspend, Resume, Tick, Changed, world
<1>3. groups' \in [User -> [Tenant -> SUBSET SUBSET Role]]
  <2>1. ASSUME NEW u \in User, NEW t \in Tenant,
               NEW held \in (SUBSET (SUBSET Role)) \ {{}}, Edit(u, t, held)
        PROVE  groups' \in [User -> [Tenant -> SUBSET SUBSET Role]]
    <3>1. groups' = [groups EXCEPT ![u] = [groups[u] EXCEPT ![t] = held]]
      BY <2>1 DEF Edit
    <3>2. [groups[u] EXCEPT ![t] = held] \in [Tenant -> SUBSET SUBSET Role]
      BY <1>0
    <3> QED
      BY <1>0, <3>1, <3>2
  <2>2. CASE \/ \E k \in Key : Revoke(k) \/ Reinstate(k)
             \/ \E t \in Tenant : Suspend(t) \/ Resume(t)
             \/ Tick
    <3>1. groups' = groups
      BY <2>2 DEF Revoke, Reinstate, Suspend, Resume, Tick, world
    <3> QED
      BY <1>0, <3>1
  <2> QED
    BY <2>1, <2>2 DEF Environment
<1>4. /\ lastValid' \in [Key -> Int]
      /\ \A k \in Key : lastValid'[k] >= lastValid[k] /\ lastValid'[k] <= clock'
  <2>1. CASE Tick
    BY <1>0, <2>1 DEF Tick, PastSound
  <2>2. CASE \E k \in Key : Reinstate(k)
    BY <1>0, <2>2 DEF Reinstate, PastSound
  <2>3. CASE ~Tick /\ ~\E k \in Key : Reinstate(k)
    <3>1. lastValid' = lastValid /\ clock' = clock
      BY <2>3 DEF Environment, Revoke, Edit, Suspend, Resume, history
    <3> QED
      BY <1>0, <3>1 DEF PastSound
  <2> QED
    BY <2>1, <2>2, <2>3
<1>5. /\ lastLive' \in [Tenant -> Int]
      /\ \A t \in Tenant : lastLive'[t] >= lastLive[t] /\ lastLive'[t] <= clock'
  <2>1. CASE Tick
    BY <1>0, <2>1 DEF Tick, PastSound
  <2>2. CASE \E t \in Tenant : Resume(t)
    BY <1>0, <2>2 DEF Resume, PastSound
  <2>3. CASE ~Tick /\ ~\E t \in Tenant : Resume(t)
    <3>1. lastLive' = lastLive /\ clock' = clock
      BY <2>3 DEF Environment, Revoke, Reinstate, Edit, Suspend, history
    <3> QED
      BY <1>0, <3>1 DEF PastSound
  <2> QED
    BY <2>1, <2>2, <2>3
<1>6. /\ lastHeld' \in [User -> [Tenant -> [SUBSET Role -> Int]]]
      /\ \A u \in User, t \in Tenant : \A g \in SUBSET Role :
           lastHeld'[u][t][g] >= lastHeld[u][t][g] /\ lastHeld'[u][t][g] <= clock'
  <2>0. \A u \in User, t \in Tenant : \A g \in SUBSET Role :
          lastHeld[u][t][g] \in Int /\ lastHeld[u][t][g] <= clock
    BY <1>0 DEF PastSound
  <2>1. CASE Tick
    <3>1. /\ clock' = clock + 1
          /\ lastHeld' = [u \in User |-> [t \in Tenant |-> [g \in SUBSET Role |->
                            IF g \in groups[u][t] THEN clock' ELSE lastHeld[u][t][g]]]]
      BY <2>1 DEF Tick
    <3>2. \A u \in User, t \in Tenant : \A g \in SUBSET Role :
            lastHeld'[u][t][g] = IF g \in groups[u][t] THEN clock' ELSE lastHeld[u][t][g]
      BY <3>1
    <3>3. \A u \in User, t \in Tenant : \A g \in SUBSET Role :
            (IF g \in groups[u][t] THEN clock' ELSE lastHeld[u][t][g]) \in Int
      BY <1>0, <2>0, <3>1
    <3>4. lastHeld' \in [User -> [Tenant -> [SUBSET Role -> Int]]]
      BY <3>1, <3>3
    <3>5. \A u \in User, t \in Tenant : \A g \in SUBSET Role :
            lastHeld'[u][t][g] >= lastHeld[u][t][g] /\ lastHeld'[u][t][g] <= clock'
      <4>1. SUFFICES ASSUME NEW u \in User, NEW t \in Tenant, NEW g \in SUBSET Role
                     PROVE  lastHeld'[u][t][g] >= lastHeld[u][t][g] /\ lastHeld'[u][t][g] <= clock'
        OBVIOUS
      <4>2. /\ lastHeld[u][t][g] \in Int /\ lastHeld[u][t][g] <= clock
            /\ lastHeld'[u][t][g] = IF g \in groups[u][t] THEN clock' ELSE lastHeld[u][t][g]
        BY <2>0, <3>2
      <4> QED
        BY <1>0, <3>1, <4>2
    <3> QED
      BY <3>4, <3>5
  <2>2. ASSUME NEW u \in User, NEW t \in Tenant,
               NEW held \in (SUBSET (SUBSET Role)) \ {{}}, Edit(u, t, held)
        PROVE  <1>6!1 /\ <1>6!2
    <3> DEFINE h == [g \in SUBSET Role |-> IF g \in held THEN clock ELSE lastHeld[u][t][g]]
    <3>1. lastHeld' = [lastHeld EXCEPT ![u] = [lastHeld[u] EXCEPT ![t] = h]] /\ clock' = clock
      BY <2>2 DEF Edit
    <3>2. /\ h \in [SUBSET Role -> Int]
          /\ \A g \in SUBSET Role : h[g] >= lastHeld[u][t][g] /\ h[g] <= clock
      BY <1>0, <2>0
    <3> HIDE DEF h
    <3>3. [lastHeld[u] EXCEPT ![t] = h] \in [Tenant -> [SUBSET Role -> Int]]
      BY <1>0, <3>2
    <3>4. lastHeld' \in [User -> [Tenant -> [SUBSET Role -> Int]]]
      BY <1>0, <3>1, <3>3
    <3>5. \A v \in User, s \in Tenant :
            lastHeld'[v][s] = IF v = u /\ s = t THEN h ELSE lastHeld[v][s]
      BY <1>0, <3>1
    <3>6. \A v \in User, s \in Tenant : \A g \in SUBSET Role :
            lastHeld'[v][s][g] >= lastHeld[v][s][g] /\ lastHeld'[v][s][g] <= clock'
      BY <2>0, <3>1, <3>2, <3>5
    <3> QED
      BY <3>4, <3>6
  <2>3. CASE \/ \E k \in Key : Revoke(k) \/ Reinstate(k)
             \/ \E t \in Tenant : Suspend(t) \/ Resume(t)
    <3>1. lastHeld' = lastHeld /\ clock' = clock
      BY <2>3 DEF Revoke, Reinstate, Suspend, Resume, history
    <3>2. \A u \in User, t \in Tenant : \A g \in SUBSET Role :
            lastHeld[u][t][g] >= lastHeld[u][t][g] /\ lastHeld[u][t][g] <= clock
      BY <2>0
    <3> QED
      BY <1>0, <3>1, <3>2
  <2> QED
    BY <2>1, <2>2, <2>3 DEF Environment
<1>7. TypeOK'
  <2>1. Store!TypeOK'
    BY <1>1, <1>2 DEF IInv, TypeOK, Store!TypeOK
  <2> QED
    BY <1>0, <1>1, <1>2, <1>3, <1>4, <1>5, <1>6, <2>1 DEF TypeOK
<1>8. PastSound' /\ Grows
  BY <1>1, <1>4, <1>5, <1>6 DEF PastSound, Grows
<1>9. \A tok \in Token : TokenSound(tok)'
  BY <1>1, <1>7, <1>8, TokenKept
<1>10. \A r \in Request : RequestSound(r)'
  BY <1>1, <1>2, <1>7, <1>8, RequestKept
<1> QED
  BY <1>7, <1>8, <1>9, <1>10 DEF IInv
-----------------------------------------------------------------------------
\* A step of one request that issues no token leaves all others, and the tokens
\* but for one that may be forgotten, as they were.
LEMMA OneMoves ==
  ASSUME IInv, NEW r \in Request, NEW q \in RequestState, req' = [req EXCEPT ![r] = q],
         loop' \in Request \cup {None},
         session' \in [Request -> Identity \cup {None}],
         \A s \in Request : s # r => session'[s] = session[s],
         Store!TypeOK', \A tok \in Token : tokens'[tok] \in {tokens[tok], None},
         UNCHANGED <<minted, login, world, clock, history>>,
         req'[r] = q => RequestSound(r)'
  PROVE  IInv'
<1>1. UNCHANGED <<valid, groups, live, changes, lastValid, lastHeld, lastLive, clock>>
  BY DEF world, history
<1>2. req' \in [Request -> RequestState] /\ req'[r] = q
      /\ \A s \in Request : s # r => req'[s] = req[s]
  BY DEF IInv, TypeOK
<1>3. TypeOK'
  BY <1>1, <1>2 DEF IInv, TypeOK
<1>4. PastSound'
  BY <1>1 DEF IInv, PastSound
<1>5. Grows /\ clock' >= clock
  <2>1. /\ lastValid \in [Key -> Int] /\ lastLive \in [Tenant -> Int] /\ clock \in Int
        /\ lastHeld \in [User -> [Tenant -> [SUBSET Role -> Int]]]
    <3>1. TypeOK /\ Store!TypeOK
      BY DEF IInv, TypeOK
    <3>2. clock \in Int
      BY <3>1, BoundAssumption DEF Store!TypeOK
    <3> QED
      BY <3>1, <3>2 DEF TypeOK
  <2>2. \A u \in User, t \in Tenant : \A g \in SUBSET Role : lastHeld[u][t][g] \in Int
    BY <2>1
  <2>3. \A u \in User, t \in Tenant : \A g \in SUBSET Role : lastHeld[u][t][g] >= lastHeld[u][t][g]
    BY <2>2
  <2> QED
    BY <1>1, <2>1, <2>3 DEF Grows
<1>6. \A tok \in Token : TokenSound(tok)'
  BY <1>1, <1>3, <1>5, TokenKept
<1>7. ASSUME NEW s \in Request PROVE RequestSound(s)'
  <2>1. CASE s = r
    BY <1>2, <2>1
  <2>2. CASE s # r
    BY <1>2, <1>3, <1>5, <2>2, RequestKept
  <2> QED
    BY <2>1, <2>2
<1> QED
  BY <1>3, <1>4, <1>6, <1>7 DEF IInv

LEMMA IdleState == Idle \in RequestState
BY BoundAssumption DEF Idle, RequestState, Stage, Path

\* An answer of any kind ends the request; no session, or one nobody reads, stays.
LEMMA FinishStep ==
  ASSUME IInv, NEW r \in Request, Finish(r),
         session' \in [Request -> Identity \cup {None}],
         \A s \in Request : s # r => session'[s] = session[s],
         Store!TypeOK', \A tok \in Token : tokens'[tok] \in {tokens[tok], None},
         UNCHANGED <<minted, login, world, clock, history>>
  PROVE  IInv'
<1>1. req' = [req EXCEPT ![r] = Idle] /\ loop' = None
  BY DEF Finish
<1>2. ASSUME req'[r] = Idle PROVE RequestSound(r)'
  <2>1. req'[r].stage = "idle"
    BY <1>2 DEF Idle
  <2> QED
    BY <2>1 DEF RequestSound
<1> QED
  BY <1>1, <1>2, IdleState, OneMoves

\* Nothing of the store changes, and its types hold.
LEMMA StoreKept ==
  ASSUME IInv, UNCHANGED <<tokens, minted, refused, clock>>
  PROVE  Store!TypeOK' /\ \A tok \in Token : tokens'[tok] \in {tokens[tok], None}
BY DEF IInv, TypeOK, Store!TypeOK

\* Presenting a token at most forgets it.
LEMMA ResolveLeaves ==
  ASSUME IInv, NEW tok \in Token, Store!Resolve(tok)
  PROVE  /\ Store!TypeOK' /\ UNCHANGED <<minted, clock>>
         /\ \A k \in Token : tokens'[k] \in {tokens[k], None}
<1>1. Store!TypeOK
  BY DEF IInv, TypeOK
<1>2. CASE UNCHANGED <<tokens, minted, refused, clock>>
  BY <1>2, StoreKept
<1>3. CASE /\ tokens' = [tokens EXCEPT ![tok] = None] /\ refused' = refused \cup {tok}
           /\ UNCHANGED <<minted, clock>>
  BY <1>1, <1>3 DEF Store!TypeOK
<1> QED
  BY <1>2, <1>3 DEF Store!Resolve, Store!vars, Store!clock
-----------------------------------------------------------------------------
LEMMA ArriveStep ==
  ASSUME IInv, NEW r \in Request, NEW path \in Path, NEW cred \in Cred \cup {None},
         NEW tok \in Token \cup {None}, NEW t \in Tenant, Arrive(r, path, cred, tok, t)
  PROVE  IInv'
<1> DEFINE q == [Idle EXCEPT !.stage = "arrived", !.path = path,
                             !.cred = cred, !.token = tok, !.tenant = t]
<1>1. /\ req' = [req EXCEPT ![r] = q]
      /\ cred = None \/ tok = None
      /\ UNCHANGED <<loop, session, tokens, minted, refused, login, world, clock, history>>
  BY DEF Arrive, store
<1>2. /\ q \in RequestState /\ q.stage = "arrived" /\ q.tenant = t
      /\ q.cred = cred /\ q.token = tok
  <2>1. q \in RequestState
    BY IdleState DEF RequestState, Stage
  <2> QED
    BY <2>1 DEF Idle
<1> HIDE DEF q
<1>3. ASSUME req'[r] = q PROVE RequestSound(r)'
  BY <1>1, <1>2, <1>3, NotNone DEF RequestSound
<1>4. loop' \in Request \cup {None} /\ session' \in [Request -> Identity \cup {None}]
  BY <1>1 DEF IInv, TypeOK
<1>5. Store!TypeOK' /\ \A k \in Token : tokens'[k] \in {tokens[k], None}
  BY <1>1, StoreKept
<1> QED
  BY <1>1, <1>2, <1>3, <1>4, <1>5, OneMoves

\* Every way a request ends without having been served, or after it.
LEMMA EndStep ==
  ASSUME IInv, NEW r \in Request,
         \/ NoCredentials(r) \/ NoRoles(r) \/ Refused(r) \/ Serve(r)
         \/ Verified(r) /\ Finish(r)
  PROVE  IInv'
<1>1. /\ Finish(r) /\ UNCHANGED <<tokens, minted, refused, login, world, clock, history>>
      /\ session' = session \/ session' = [session EXCEPT ![r] = None]
  BY DEF NoCredentials, NoRoles, Refused, Serve, Verified, store
<1>2. session' \in [Request -> Identity \cup {None}]
      /\ \A s \in Request : s # r => session'[s] = session[s]
  BY <1>1 DEF IInv, TypeOK
<1> QED
  BY <1>1, <1>2, StoreKept, FinishStep

\* A token accepted stands for the identity it was issued for.
LEMMA PresentStep == ASSUME IInv, NEW r \in Request, Present(r) PROVE IInv'
<1> DEFINE tok == req[r].token
<1>1. TypeOK /\ RequestSound(r) /\ req[r] \in RequestState
  BY RequestTyped DEF IInv
<1>2. /\ req[r].stage = "arrived" /\ tok \in Token /\ tok # None
      /\ Store!Resolve(tok) /\ UNCHANGED <<session, login, world, history>>
  BY <1>1, RequestTyped DEF Present, Turn
<1>3. /\ Store!TypeOK' /\ UNCHANGED <<minted, clock>>
      /\ \A k \in Token : tokens'[k] \in {tokens[k], None}
  BY <1>2, ResolveLeaves
<1>4. session' \in [Request -> Identity \cup {None}]
  BY <1>1, <1>2 DEF TypeOK
<1>5. CASE Finish(r)
  BY <1>2, <1>3, <1>4, <1>5, FinishStep
<1>6. CASE /\ Store!Accepts(tok) /\ tokens[tok].identity.tenant = req[r].tenant
           /\ Hold(r, "gate", tokens[tok].identity)
  <2> DEFINE q == [req[r] EXCEPT !.stage = "gate", !.since = clock,
                                 !.identity = tokens[tok].identity]
  <2>1. tokens[tok] # None /\ clock <= tokens[tok].expiry
    BY <1>6 DEF Store!Accepts, Store!Held
  <2>2. /\ minted[tok] # None /\ tokens[tok].identity = minted[tok].identity
        /\ tokens[tok].expiry = minted[tok].wall + TokenTTL
        /\ tokens[tok].identity \in Identity
    BY <1>1, <1>2, <2>1, TokenTyped DEF IInv, TokenSound
  <2>3. req' = [req EXCEPT ![r] = q] /\ loop' = r
    BY <1>6 DEF Hold
  <2>4. clock \in 0..MaxTime
    BY <1>1 DEF TypeOK, Store!TypeOK
  <2>5. /\ q \in RequestState /\ q.stage = "gate" /\ q.since = clock
        /\ q.identity = tokens[tok].identity /\ q.token = tok
        /\ q.tenant = req[r].tenant /\ q.cred = req[r].cred /\ q.began = req[r].began
        /\ q.failed = req[r].failed
    BY <1>1, <2>2, <2>4 DEF RequestState, Stage
  <2> HIDE DEF q
  <2>6. ASSUME req'[r] = q PROVE RequestSound(r)'
    <3>1. IdentitySound(r)'
      BY <1>2, <1>3, <1>6, <2>1, <2>2, <2>5, <2>6, NotNone DEF IdentitySound
    <3> QED
      BY <1>1, <1>2, <2>5, <2>6, <3>1 DEF RequestSound
  <2> QED
    BY <1>2, <1>3, <1>4, <2>3, <2>5, <2>6, OneMoves
<1> QED
  BY <1>5, <1>6 DEF Present

\* A login begins: now is when it began.
LEMMA AskStep == ASSUME IInv, NEW r \in Request, Ask(r) PROVE IInv'
<1> DEFINE q == [req[r] EXCEPT !.stage = "verify", !.began = clock, !.since = clock]
<1>1. TypeOK /\ RequestSound(r) /\ req[r] \in RequestState /\ clock \in 0..MaxTime
  BY RequestTyped DEF IInv, TypeOK, Store!TypeOK
<1>2. /\ req[r].stage = "arrived" /\ req[r].cred # None
      /\ req' = [req EXCEPT ![r] = q] /\ loop' = r
      /\ UNCHANGED <<session, tokens, minted, refused, login, world, clock, history>>
  BY DEF Ask, Turn, store
<1>3. /\ q \in RequestState /\ q.stage = "verify" /\ q.began = clock /\ q.since = clock
      /\ q.tenant = req[r].tenant /\ q.cred = req[r].cred /\ q.token = req[r].token
  BY <1>1 DEF RequestState, Stage
<1> HIDE DEF q
<1>4. ASSUME req'[r] = q PROVE RequestSound(r)'
  BY <1>1, <1>2, <1>3, <1>4, BoundAssumption DEF RequestSound
<1>5. session' \in [Request -> Identity \cup {None}]
  BY <1>1, <1>2 DEF TypeOK
<1>6. Store!TypeOK' /\ \A k \in Token : tokens'[k] \in {tokens[k], None}
  BY <1>2, StoreKept
<1> QED
  BY <1>2, <1>3, <1>4, <1>5, <1>6, OneMoves

\* The verifier's yes: roles are looked up from now.
LEMMA VerifiedStep == ASSUME IInv, NEW r \in Request, Verified(r) PROVE IInv'
<1> DEFINE q == [req[r] EXCEPT !.stage = "roles", !.since = clock, !.identity = None]
<1>1. TypeOK /\ RequestSound(r) /\ req[r] \in RequestState /\ clock \in 0..MaxTime
  BY RequestTyped DEF IInv, TypeOK, Store!TypeOK
<1>2. /\ req[r].stage = "verify"
      /\ UNCHANGED <<session, tokens, minted, refused, login, world, clock, history>>
  BY DEF Verified, At, store
<1>3. CASE Finish(r)
  BY <1>3, EndStep DEF Verified
<1>4. CASE /\ Verify!MayBeYes(<<req[r].cred, req[r].tenant>>, req[r].began)
           /\ Hold(r, "roles", None)
  <2>1. req' = [req EXCEPT ![r] = q] /\ loop' = r
    BY <1>4 DEF Hold
  <2>2. /\ q \in RequestState /\ q.stage = "roles" /\ q.since = clock
        /\ q.tenant = req[r].tenant /\ q.cred = req[r].cred /\ q.token = req[r].token
        /\ q.began = req[r].began
    BY <1>1 DEF RequestState, Stage
  <2> HIDE DEF q
  <2>3. ASSUME req'[r] = q PROVE RequestSound(r)'
    <3>1. lastValid' = lastValid
      BY <1>2 DEF history
    <3>2. Verify!MayBeYes(<<req[r].cred, req[r].tenant>>, req[r].began)'
      BY <1>4, <2>2, <2>3, <3>1 DEF Verify!MayBeYes
    <3> QED
      BY <1>1, <1>2, <2>2, <2>3, <3>2 DEF RequestSound
  <2>4. session' \in [Request -> Identity \cup {None}]
    BY <1>1, <1>2 DEF TypeOK
  <2>5. Store!TypeOK' /\ \A k \in Token : tokens'[k] \in {tokens[k], None}
    BY <1>2, StoreKept
  <2> QED
    BY <1>2, <2>1, <2>2, <2>3, <2>4, <2>5, OneMoves
<1> QED
  BY <1>3, <1>4 DEF Verified

\* The identity made of the roles found is backed by the login's credential.
LEMMA ResolvedIsBacked ==
  ASSUME IInv, NEW r \in Request, req[r].stage = "roles",
         NEW failed \in BOOLEAN, NEW roles \in Resolvable(r, failed),
         Authenticated(IdentityOf(r, roles))
  PROVE  /\ IdentityOf(r, roles) \in Identity /\ IdentityOf(r, roles).tenant = req[r].tenant
         /\ Backed(req[r].cred, req[r].began, failed, IdentityOf(r, roles))
         /\ req[r].token = None /\ req[r].cred \in Cred
<1> DEFINE u == UidOf[req[r].cred]
           t == req[r].tenant
<1>1. /\ TypeOK /\ RequestSound(r)
      /\ req[r].cred \in Cred /\ t \in Tenant /\ req[r].token = None
      /\ req[r].began \in Int /\ req[r].since \in Int
      /\ req[r].began <= req[r].since
      /\ Verify!MayBeYes(<<req[r].cred, t>>, req[r].began)
  BY RequestTyped, NotNone DEF IInv, RequestSound
<1>2. u \in User
  BY <1>1, UidAssumption
<1>3. IF failed THEN roles = {}
                ELSE \E g \in SUBSET Role : roles = RolesFrom(g) /\ lastHeld[u][t][g] >= req[r].since
  BY DEF Resolvable
<1>4. roles \in SUBSET (Role \cup {"system_admin"})
  BY <1>3 DEF RolesFrom
<1>5. IF failed THEN roles = {}
                ELSE \E g \in SUBSET Role : roles = RolesFrom(g) /\ lastHeld[u][t][g] >= req[r].began
  <2>1. \A g \in SUBSET Role : lastHeld[u][t][g] \in Int
    BY <1>1, <1>2 DEF TypeOK
  <2>2. \A g \in SUBSET Role : lastHeld[u][t][g] >= req[r].since => lastHeld[u][t][g] >= req[r].began
    BY <1>1, <2>1
  <2> QED
    BY <1>3, <2>2
<1>6. IdentityOf(r, roles) = [user |-> u, tenant |-> t, roles |-> roles]
  BY DEF IdentityOf
<1>7. /\ IdentityOf(r, roles) \in Identity /\ IdentityOf(r, roles).user = u
      /\ IdentityOf(r, roles).tenant = t /\ IdentityOf(r, roles).roles = roles
  BY <1>1, <1>2, <1>4, <1>6 DEF Identity
<1>8. RolesBacked(req[r].began, failed, IdentityOf(r, roles))
  BY <1>5, <1>7 DEF RolesBacked
<1>9. Backed(req[r].cred, req[r].began, failed, IdentityOf(r, roles))
  BY <1>1, <1>7, <1>8 DEF Backed
<1> QED
  BY <1>1, <1>7, <1>9

\* For a session the identity goes with the request to the gate.
LEMMA SessionRolesStep == ASSUME IInv, NEW r \in Request, RolesForSession(r) PROVE IInv'
<1>1. /\ TypeOK /\ RequestSound(r) /\ req[r] \in RequestState /\ clock \in 0..MaxTime
      /\ req[r].stage = "roles"
      /\ UNCHANGED <<session, tokens, minted, refused, login, world, clock, history>>
  BY RequestTyped DEF IInv, TypeOK, Store!TypeOK, RolesForSession, At, store
<1>2. PICK failed \in BOOLEAN : \E roles \in Resolvable(r, failed) :
        /\ Authenticated(IdentityOf(r, roles))
        /\ req' = [req EXCEPT ![r] = [@ EXCEPT !.stage = "gate", !.since = clock, !.failed = failed,
                                                !.identity = IdentityOf(r, roles)]]
        /\ loop' = r
  BY Zenon DEF RolesForSession
<1>a. PICK roles \in Resolvable(r, failed) :
        /\ Authenticated(IdentityOf(r, roles))
        /\ req' = [req EXCEPT ![r] = [@ EXCEPT !.stage = "gate", !.since = clock, !.failed = failed,
                                                !.identity = IdentityOf(r, roles)]]
        /\ loop' = r
  BY <1>2
<1> DEFINE id == IdentityOf(r, roles)
           q == [req[r] EXCEPT !.stage = "gate", !.since = clock, !.failed = failed, !.identity = id]
<1>3. /\ id \in Identity /\ id.tenant = req[r].tenant
      /\ Backed(req[r].cred, req[r].began, failed, id)
      /\ req[r].token = None
  BY <1>1, <1>2, <1>a, ResolvedIsBacked DEF IInv
<1>4. req' = [req EXCEPT ![r] = q] /\ loop' = r
  BY <1>a
<1> HIDE DEF id
<1>5. /\ q \in RequestState /\ q.stage = "gate" /\ q.identity = id
      /\ q.tenant = req[r].tenant /\ q.cred = req[r].cred /\ q.token = req[r].token
      /\ q.began = req[r].began /\ q.failed = failed
  BY <1>1, <1>2, <1>3 DEF RequestState, Stage
<1> HIDE DEF q
<1>6. ASSUME req'[r] = q PROVE RequestSound(r)'
  <2>1. UNCHANGED <<lastValid, lastHeld>>
    BY <1>1 DEF history
  <2>2. RolesBacked(req[r].began, failed, id) /\ req'[r].began = req[r].began
    BY <1>3, <1>5, <1>6 DEF Backed
  <2>3. Verify!MayBeYes(<<req[r].cred, id.tenant>>, req[r].began)
    BY <1>3 DEF Backed
  <2>5. IdentitySound(r)'
    BY <1>3, <1>5, <1>6, <2>1, <2>2, <2>3, NotNone
       DEF IdentitySound, Backed, RolesBacked, Authenticated, Verify!MayBeYes
  <2> QED
    BY <1>1, <1>5, <1>6, <2>5 DEF RequestSound
<1>7. session' \in [Request -> Identity \cup {None}]
  BY <1>1 DEF TypeOK
<1>8. Store!TypeOK' /\ \A k \in Token : tokens'[k] \in {tokens[k], None}
  BY <1>1, StoreKept
<1> QED
  BY <1>1, <1>4, <1>5, <1>6, <1>7, <1>8, OneMoves

\* For a token it goes into the store, with the login it was issued for.
LEMMA TokenRolesStep == ASSUME IInv, NEW r \in Request, RolesForToken(r) PROVE IInv'
<1>1. /\ TypeOK /\ Store!TypeOK /\ req[r] \in RequestState /\ req[r].stage = "roles"
      /\ Finish(r) /\ UNCHANGED <<session, world, history>>
  BY RequestTyped DEF IInv, TypeOK, RolesForToken, At
<1>2. PICK failed \in BOOLEAN, tok \in Token : \E roles \in Resolvable(r, failed) :
        /\ Authenticated(IdentityOf(r, roles))
        /\ Store!Issue(tok, IdentityOf(r, roles))
        /\ login' = [login EXCEPT ![tok] = [cred |-> req[r].cred, began |-> req[r].began,
                                            failed |-> failed]]
  BY Zenon DEF RolesForToken
<1>a. PICK roles \in Resolvable(r, failed) :
        /\ Authenticated(IdentityOf(r, roles))
        /\ Store!Issue(tok, IdentityOf(r, roles))
        /\ login' = [login EXCEPT ![tok] = [cred |-> req[r].cred, began |-> req[r].began,
                                            failed |-> failed]]
  BY <1>2
<1> DEFINE id == IdentityOf(r, roles)
           c == req[r].cred
           b == req[r].began
           entry == [identity |-> id, expiry |-> clock + TokenTTL]
           birth == [identity |-> id, wall |-> clock, time |-> clock, setback |-> 0]
           l == [cred |-> c, began |-> b, failed |-> failed]
<1>3. /\ id \in Identity /\ Backed(c, b, failed, id) /\ c \in Cred /\ b \in Int
  BY <1>1, <1>2, <1>a, ResolvedIsBacked, RequestTyped
<1>4. /\ minted[tok] = None /\ clock' = clock /\ refused' = refused
      /\ tokens' = [tokens EXCEPT ![tok] = entry]
      /\ minted' = [minted EXCEPT ![tok] = birth]
      /\ login' = [login EXCEPT ![tok] = l]
  BY <1>a DEF Store!Issue, Store!clock
<1> HIDE DEF id, c, b
<1>5. clock \in 0..MaxTime /\ clock \in Int
  BY <1>1, BoundAssumption DEF Store!TypeOK
<1>6. /\ entry \in Store!Entry /\ birth \in Store!Birth /\ l \in Login
      /\ entry # None /\ birth # None /\ l # None
  BY <1>2, <1>3, <1>5, TTLAssumption, NotNone DEF Store!Entry, Store!Birth, Login
<1>7. /\ entry.identity = id /\ entry.expiry = clock + TokenTTL
      /\ birth.identity = id /\ birth.wall = clock
      /\ l.cred = c /\ l.began = b /\ l.failed = failed
  OBVIOUS
<1> HIDE DEF entry, birth, l
<1>8. Store!TypeOK'
  BY <1>1, <1>4, <1>6 DEF Store!TypeOK
<1>9. /\ tokens'[tok] = entry /\ minted'[tok] = birth /\ login'[tok] = l
      /\ \A k \in Token : k # tok => /\ tokens'[k] = tokens[k] /\ minted'[k] = minted[k]
                                     /\ login'[k] = login[k]
  BY <1>1, <1>4 DEF TypeOK, Store!TypeOK
<1>10. UNCHANGED <<valid, groups, live, changes, lastValid, lastHeld, lastLive, session>>
  BY <1>1 DEF world, history
<1>11. /\ req' = [req EXCEPT ![r] = Idle] /\ loop' = None
       /\ req'[r] = Idle /\ \A s \in Request : s # r => req'[s] = req[s]
  BY <1>1 DEF Finish, TypeOK
<1>12. TypeOK'
  <2>1. req' \in [Request -> RequestState] /\ login' \in [Token -> Login \cup {None}]
    BY <1>1, <1>4, <1>6, <1>11, IdleState DEF TypeOK
  <2> QED
    BY <1>1, <1>8, <1>10, <1>11, <2>1 DEF TypeOK
<1>13. PastSound' /\ Grows
  <2>1. PastSound'
    BY <1>4, <1>10 DEF IInv, PastSound
  <2>2. /\ \A k \in Key : lastValid'[k] >= lastValid[k]
        /\ \A t \in Tenant : lastLive'[t] >= lastLive[t]
    BY <1>1, <1>10 DEF TypeOK
  <2>3. \A u \in User, t \in Tenant : \A g \in SUBSET Role :
          lastHeld'[u][t][g] >= lastHeld[u][t][g]
    <3>1. \A u \in User, t \in Tenant : \A g \in SUBSET Role : lastHeld[u][t][g] \in Int
      BY <1>1 DEF TypeOK
    <3>2. \A u \in User, t \in Tenant : \A g \in SUBSET Role :
            lastHeld[u][t][g] >= lastHeld[u][t][g]
      BY <3>1
    <3> QED
      BY <1>10, <3>2
  <2>4. \A k \in Token : minted[k] # None => minted'[k] = minted[k] /\ login'[k] = login[k]
    BY <1>4, <1>9
  <2> QED
    BY <2>1, <2>2, <2>3, <2>4 DEF Grows
<1>14. ASSUME NEW k \in Token PROVE TokenSound(k)'
  <2>1. CASE k # tok
    BY <1>9, <1>12, <1>13, <2>1, TokenKept
  <2>2. CASE k = tok
    <3>1. PICK c1 \in Cred, b1 \in Int, i1 \in Identity : c1 = c /\ b1 = b /\ i1 = id
      BY <1>3
    <3>2. Backed(c1, b1, failed, i1)'
      BY <1>1, <1>2, <1>3, <1>12, <1>13, <3>1, BackedKept
    <3>3. /\ login'[k] # None /\ login'[k].cred = c1 /\ login'[k].began = b1
          /\ login'[k].failed = failed
          /\ minted'[k] # None /\ minted'[k].identity = i1 /\ minted'[k].wall = clock
          /\ tokens'[k].identity = i1 /\ tokens'[k].expiry = clock + TokenTTL
      BY <1>6, <1>7, <1>9, <2>2, <3>1
    <3> QED
      BY <3>2, <3>3 DEF TokenSound
  <2> QED
    BY <2>1, <2>2
<1>15. ASSUME NEW s \in Request PROVE RequestSound(s)'
  <2>1. CASE s = r
    <3>1. req'[s].stage = "idle"
      BY <1>11, <2>1 DEF Idle
    <3> QED
      BY <3>1 DEF RequestSound
  <2>2. CASE s # r
    BY <1>4, <1>5, <1>10, <1>11, <1>12, <1>13, <2>2, RequestKept
  <2> QED
    BY <2>1, <2>2
<1> QED
  BY <1>12, <1>13, <1>14, <1>15 DEF IInv

\* The gate's yes: the identity becomes the session of this request alone.
LEMMA AdmittedStep == ASSUME IInv, NEW r \in Request, Admitted(r) PROVE IInv'
<1> DEFINE q == [req[r] EXCEPT !.stage = "serving"]
<1>1. /\ TypeOK /\ RequestSound(r) /\ req[r] \in RequestState /\ req[r].stage = "gate"
      /\ req[r].tenant \in Tenant /\ req[r].identity \in Identity /\ req[r].since \in Int
      /\ IdentitySound(r)
      /\ UNCHANGED <<tokens, minted, refused, login, world, clock, history>>
  BY RequestTyped, NotNone DEF IInv, Admitted, At, store, RequestSound, IdentitySound
<1>2. /\ session' = [session EXCEPT ![r] = req[r].identity] /\ loop' = None
      /\ req' = [req EXCEPT ![r] = q]
      /\ Admit!MayBeYes(req[r].tenant, req[r].since)
  BY DEF Admitted, SetSession
<1>3. /\ q \in RequestState /\ q.stage = "serving" /\ q.identity = req[r].identity
      /\ q.tenant = req[r].tenant /\ q.cred = req[r].cred /\ q.token = req[r].token
      /\ q.began = req[r].began /\ q.since = req[r].since /\ q.failed = req[r].failed
  BY <1>1 DEF RequestState, Stage
<1> HIDE DEF q
<1>4. /\ session' \in [Request -> Identity \cup {None}] /\ session'[r] = req[r].identity
      /\ \A s \in Request : s # r => session'[s] = session[s]
  BY <1>1, <1>2 DEF TypeOK
<1>5. ASSUME req'[r] = q PROVE RequestSound(r)'
  <2>1. UNCHANGED <<lastValid, lastHeld, lastLive, minted>>
    BY <1>1 DEF history
  <2>2. lastLive[req[r].tenant] > req[r].since - AdmitTTL
    <3>1. lastLive[req[r].tenant] \in Int
      BY <1>1 DEF TypeOK
    <3> QED
      BY <1>1, <1>2, <3>1, TTLAssumption DEF Admit!MayBeYes
  <2>3. IdentitySound(r)'
    BY <1>1, <1>3, <1>5, <2>1 DEF IdentitySound, Backed, RolesBacked, Authenticated, Verify!MayBeYes
  <2> QED
    BY <1>1, <1>3, <1>4, <1>5, <2>1, <2>2, <2>3 DEF RequestSound
<1>6. Store!TypeOK' /\ \A k \in Token : tokens'[k] \in {tokens[k], None}
  BY <1>1, StoreKept
<1> QED
  BY <1>1, <1>2, <1>3, <1>4, <1>5, <1>6, OneMoves
-----------------------------------------------------------------------------
LEMMA Consecution == IInv /\ [Next]_vars => IInv'
<1> SUFFICES ASSUME IInv, [Next]_vars PROVE IInv'
  OBVIOUS
<1>1. CASE \E r \in Request, path \in Path, cred \in Cred \cup {None},
              tok \in Token \cup {None}, t \in Tenant : Arrive(r, path, cred, tok, t)
  BY <1>1, ArriveStep
<1>2. ASSUME NEW r \in Request, Begin(r) PROVE IInv'
  BY <1>2, EndStep, PresentStep, AskStep DEF Begin
<1>3. ASSUME NEW r \in Request, Continue(r) PROVE IInv'
  BY <1>3, VerifiedStep, SessionRolesStep, TokenRolesStep, EndStep, AdmittedStep DEF Continue
<1>4. ASSUME NEW r \in Request, Serve(r) PROVE IInv'
  BY <1>4, EndStep
<1>5. CASE Environment
  BY <1>5, EnvironmentStep
<1>6. CASE UNCHANGED vars
  <2>1. UNCHANGED <<loop, req, session, tokens, minted, refused, login, valid, groups, live,
                    changes, clock, lastValid, lastHeld, lastLive>>
    BY <1>6 DEF vars
  <2>2. TypeOK' /\ PastSound'
    BY <2>1 DEF IInv, TypeOK, Store!TypeOK, PastSound
  <2>3. ASSUME NEW tok \in Token PROVE TokenSound(tok)'
    BY <2>1 DEF IInv, TokenSound, Backed, RolesBacked, Authenticated, Verify!MayBeYes
  <2>4. ASSUME NEW r \in Request PROVE RequestSound(r)'
    BY <2>1 DEF IInv, RequestSound, IdentitySound, Backed, RolesBacked, Authenticated,
                Verify!MayBeYes
  <2> QED
    BY <2>2, <2>3, <2>4 DEF IInv
<1> QED
  BY <1>1, <1>2, <1>3, <1>4, <1>5, <1>6 DEF Next

LEMMA Invariance == Spec => []IInv
BY Initially, Consecution, PTL DEF Spec

\* What stands behind a request that is served: its own login, or its token's.
LEMMA ServedIsBacked ==
  ASSUME IInv, NEW r \in Request, Serving(r)
  PROVE  /\ session[r] \in Identity /\ session[r].tenant = req[r].tenant
         /\ Backed(Basis(r).cred, Basis(r).began, Basis(r).failed, session[r])
<1>1. /\ TypeOK /\ RequestSound(r) /\ IdentitySound(r) /\ session[r] = req[r].identity
  BY DEF IInv, Serving, RequestSound
<1>2. session[r] \in Identity /\ session[r].tenant = req[r].tenant
  BY <1>1, RequestTyped DEF IdentitySound
<1>3. CASE req[r].token = None
  <2>1. /\ Basis(r).cred = req[r].cred /\ Basis(r).began = req[r].began
        /\ Basis(r).failed = req[r].failed
    BY <1>3 DEF Basis
  <2> QED
    BY <1>1, <1>2, <1>3, <2>1 DEF IdentitySound
<1>4. CASE req[r].token # None
  <2>1. req[r].token \in Token
    BY <1>1, <1>4, RequestTyped
  <2>2. Basis(r) = login[req[r].token] /\ session[r] = minted[req[r].token].identity
    BY <1>1, <1>4 DEF Basis, IdentitySound
  <2>3. Backed(login[req[r].token].cred, login[req[r].token].began, login[req[r].token].failed,
               minted[req[r].token].identity)
    BY <1>1, <1>4, <2>1 DEF IInv, TokenSound, IdentitySound
  <2> QED
    BY <1>2, <2>2, <2>3
<1> QED
  BY <1>3, <1>4

\* The state of the door keeps its shape, for any number of everything.
THEOREM TypeCorrect == Spec => []TypeOK
<1>1. IInv => TypeOK
  BY DEF IInv
<1> QED
  BY <1>1, Invariance, PTL

\* However many requests share the process, each one's application acts as the user
\* whose credential it came with, in the tenant it named.
THEOREM SessionIsOwn == Spec => []SessionIsCallers
<1>1. IInv => SessionIsCallers
  <2> SUFFICES ASSUME IInv, NEW r \in Request, Serving(r)
               PROVE  /\ session[r] # None /\ session[r].user = UidOf[Basis(r).cred]
                      /\ session[r].tenant = req[r].tenant
    BY DEF SessionIsCallers
  <2> QED
    BY ServedIsBacked, NotNone DEF Backed
<1> QED
  BY <1>1, Invariance, PTL

\* Nobody is served on a credential that had ceased to be valid a window before the
\* login, nor on a token past its lifetime.
THEOREM CredentialTrue == Spec => []CredentialBound
<1>1. IInv => CredentialBound
  <2> SUFFICES ASSUME IInv, NEW r \in Request, Serving(r)
               PROVE  /\ Verify!MayBeYes(<<Basis(r).cred, req[r].tenant>>, Basis(r).began)
                      /\ req[r].token # None =>
                           req[r].since <= minted[req[r].token].wall + TokenTTL
    BY DEF CredentialBound
  <2>1. Verify!MayBeYes(<<Basis(r).cred, req[r].tenant>>, Basis(r).began)
    BY ServedIsBacked DEF Backed
  <2>2. IdentitySound(r)
    BY DEF IInv, Serving, RequestSound
  <2> QED
    BY <2>1, <2>2 DEF IdentitySound
<1> QED
  BY <1>1, Invariance, PTL

\* A session's roles were the user's, in the tenant served, at one moment since the
\* login; none after a group search that failed, and that only for a service principal.
THEOREM RolesTrue == Spec => []RolesOfTenant
<1>1. IInv => RolesOfTenant
  <2> SUFFICES ASSUME IInv, NEW r \in Request, Serving(r)
               PROVE  /\ Authenticated(session[r])
                      /\ IF Basis(r).failed
                           THEN session[r].roles = {}
                           ELSE \E g \in SUBSET Role :
                                  /\ session[r].roles = RolesFrom(g)
                                  /\ lastHeld[session[r].user][req[r].tenant][g] >= Basis(r).began
    BY DEF RolesOfTenant
  <2>1. Authenticated(session[r]) /\ session[r].tenant = req[r].tenant
    BY ServedIsBacked DEF Backed
  <2>2. RolesBacked(Basis(r).began, Basis(r).failed, session[r])
    BY ServedIsBacked DEF Backed
  <2> QED
    BY <2>1, <2>2 DEF RolesBacked
<1> QED
  BY <1>1, Invariance, PTL

\* Nobody is served in a tenant that had ceased to be live a window before the gate
\* was reached.
THEOREM GateTrue == Spec => []GateBound
<1>1. IInv => GateBound
  BY DEF IInv, GateBound, Serving, RequestSound
<1> QED
  BY <1>1, Invariance, PTL
-----------------------------------------------------------------------------
\* A token is issued to a resolved identity, as the store wants it.
LEMMA IssuesToIdentity ==
  ASSUME IInv, NEW r \in Request, RolesForToken(r)
  PROVE  Store!Next
<1>1. req[r] \in RequestState /\ req[r].stage = "roles"
  BY RequestTyped DEF RolesForToken, At, IInv
<1>2. PICK failed \in BOOLEAN, tok \in Token : \E roles \in Resolvable(r, failed) :
        /\ Authenticated(IdentityOf(r, roles))
        /\ Store!Issue(tok, IdentityOf(r, roles))
  BY Zenon DEF RolesForToken
<1>a. PICK roles \in Resolvable(r, failed) : /\ Authenticated(IdentityOf(r, roles))
                                             /\ Store!Issue(tok, IdentityOf(r, roles))
  BY <1>2
<1>3. IdentityOf(r, roles) \in Identity
  BY <1>1, <1>2, <1>a, ResolvedIsBacked
<1> QED
  BY <1>2, <1>a, <1>3 DEF Store!Next

\* What a request or its surroundings do to the store is one call of the store's or
\* nothing at all; the clock only ticks.
LEMMA StepsAsStore == IInv /\ [Next]_vars => [Store!Next]_(Store!vars)
<1> SUFFICES ASSUME IInv, [Next]_vars
             PROVE  Store!Next \/ UNCHANGED <<tokens, minted, refused, clock>>
  BY DEF Store!vars
<1>1. ASSUME NEW r \in Request, NEW path, NEW cred, NEW tok, NEW t,
             Arrive(r, path, cred, tok, t)
      PROVE  UNCHANGED <<tokens, minted, refused, clock>>
  BY <1>1 DEF Arrive, store
<1>2. ASSUME NEW r \in Request, Present(r) PROVE Store!Next
  <2>1. req[r].token \in Token
    BY <1>2, RequestTyped DEF Present, IInv
  <2> QED
    BY <1>2, <2>1 DEF Present, Store!Next
<1>3. ASSUME NEW r \in Request,
             \/ NoCredentials(r) \/ Ask(r) \/ Verified(r) \/ RolesForSession(r)
             \/ NoRoles(r) \/ Admitted(r) \/ Refused(r) \/ Serve(r)
      PROVE  UNCHANGED <<tokens, minted, refused, clock>>
  BY <1>3 DEF NoCredentials, Ask, Verified, RolesForSession, NoRoles, Admitted, Refused,
              Serve, store
<1>4. CASE Tick
  BY <1>4 DEF Tick, store, Store!Next, Store!Tick, Store!store
<1>5. CASE Environment /\ ~Tick
  BY <1>5 DEF Environment, Revoke, Reinstate, Edit, Suspend, Resume, store
<1>6. CASE UNCHANGED vars
  BY <1>6 DEF vars
<1> QED
  BY <1>1, <1>2, <1>3, <1>4, <1>5, <1>6, IssuesToIdentity DEF Next, Begin, Continue

\* The door works its store as the store is meant to be worked: with every request
\* and every change around it, what happens to the tokens is a behaviour of
\* TokenStore, and of one whose clock is never put back.
THEOREM RunsTheStore == Spec => Store!Spec
<1>1. Init => Store!Init
  BY DEF Init, Store!Init
<1> QED
  BY <1>1, StepsAsStore, Invariance, PTL DEF Spec, Store!Spec

\* The store holds what was issued and not refused since.
HeldIsUnrefused == Store!Held = Store!Issued \ refused /\ refused \subseteq Store!Issued

LEMMA StaysUnrefused ==
  ASSUME IInv, HeldIsUnrefused, [Next]_vars
  PROVE  HeldIsUnrefused'
<1>1. Store!Next \/ UNCHANGED <<tokens, minted, refused, clock>>
  BY StepsAsStore DEF Store!vars
<1>2. Store!TypeOK /\ \A tok \in Token : minted[tok] = None => tokens[tok] = None
  BY DEF IInv, TypeOK, TokenSound
<1> USE NoEntryAssumption, TTLAssumption, <1>2
<1> USE DEF HeldIsUnrefused, Store!Held, Store!Issued, Store!TypeOK, Store!Entry, Store!Birth
<1>3. ASSUME NEW tok \in Token, NEW i \in Identity, Store!Issue(tok, i) PROVE HeldIsUnrefused'
  <2> DEFINE entry == [identity |-> i, expiry |-> clock + TokenTTL]
             birth == [identity |-> i, wall |-> clock, time |-> clock, setback |-> 0]
  <2>1. entry # None /\ birth # None
    BY BoundAssumption
  <2>2. /\ minted[tok] = None /\ refused' = refused
        /\ tokens' = [tokens EXCEPT ![tok] = entry] /\ minted' = [minted EXCEPT ![tok] = birth]
    BY <1>3 DEF Store!Issue, Store!clock
  <2> HIDE DEF entry, birth
  <2> QED
    BY <2>1, <2>2
<1>4. ASSUME NEW tok \in Token, Store!Resolve(tok) \/ Store!Revoke(tok) PROVE HeldIsUnrefused'
  BY <1>4 DEF Store!Resolve, Store!Revoke, Store!Accepts, Store!clock, Store!vars
<1>5. ASSUME UNCHANGED <<tokens, minted, refused>> PROVE HeldIsUnrefused'
  BY <1>5
<1>6. CASE Store!Tick \/ \E t \in 0..MaxTime : Store!SetClock(t)
  BY <1>5, <1>6 DEF Store!Tick, Store!SetClock, Store!store
<1> QED
  BY <1>1, <1>3, <1>4, <1>5, <1>6 DEF Store!Next

\* At the door a token opens from its issue until it has been refused once or its
\* lifetime is over, whatever the other requests present.
THEOREM AcceptsAsIssued == Spec => []Store!AcceptsExactly
<1>1. Init => HeldIsUnrefused
  BY DEF Init, HeldIsUnrefused, Store!Held, Store!Issued
<1>2. IInv /\ HeldIsUnrefused /\ [Next]_vars => HeldIsUnrefused'
  BY StaysUnrefused
<1>3. IInv /\ HeldIsUnrefused => Store!AcceptsExactly
  <2> SUFFICES ASSUME IInv, HeldIsUnrefused, NEW tok \in Token
               PROVE  Store!Accepts(tok) <=> tok \in Store!Issued \ refused /\ ~Store!Lapsed(tok)
    BY DEF Store!AcceptsExactly
  <2>1. tok \in Store!Held =>
          tokens[tok].expiry = minted[tok].wall + TokenTTL /\ minted[tok] # None
    BY DEF IInv, TokenSound, Store!Held
  <2>2. tok \in Store!Held => minted[tok].wall \in Int /\ clock \in Int /\ TokenTTL \in Int
    BY <2>1, TTLAssumption, BoundAssumption DEF IInv, TypeOK, Store!TypeOK, Store!Birth
  <2> QED
    BY <2>1, <2>2 DEF HeldIsUnrefused, Store!Accepts, Store!Lapsed
<1> QED
  BY <1>1, <1>2, <1>3, Invariance, PTL DEF Spec
=============================================================================
