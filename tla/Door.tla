--------------------------------- MODULE Door ---------------------------------
(***************************************************************************)
(* The HTTP door: http_app.AuthMiddleware and /auth/token, over            *)
(* http_auth.resolve_identity and the session context variable.            *)
(*                                                                         *)
(* A request is authenticated by blocking calls on the one event-loop      *)
(* thread, so from its first step to the moment the session is set (or the *)
(* refusal sent) it holds the loop, while credentials are revoked, groups  *)
(* edited and tenants suspended.  The application behind it is awaited: the *)
(* loop is free again, and other requests come between a session being set *)
(* and being read.                                                         *)
(*                                                                         *)
(* Composed of: TokenStore as it is (its clock runs true here); the answers *)
(* of the service-credential verifier and of the tenant gate, as much as   *)
(* FreshAnswer promises, which ServiceCred and TenantGate implement; and of *)
(* role resolution, what LdapFailover!RolesHeldThere says: the roles of a  *)
(* set of groups some directory held during the call; or, if the group     *)
(* search failed, no roles, which still admits a service principal; or a   *)
(* refusal.                                                                *)
(*                                                                         *)
(* Operators named X_Remark are deviations of the X that follows them.     *)
(***************************************************************************)
EXTENDS Integers, FiniteSets, TenantAccess

CONSTANTS
  Request,    \* connections; each carries one request after another
  Cred,       \* key_id:secret pairs
  User,
  UidOf,      \* Cred -> User
  Principals, \* the users exempt from membership
  Tenant,
  Role,       \* group cns
  Token,
  TokenTTL,   \* MCP_TOKEN_TTL
  VerifyTTL,  \* SERVICE_CRED_VERIFY_CACHE_TTL
  AdmitTTL,   \* tenant_state.ADMIT_TTL_S
  None,       \* nothing: no credential, no identity, no session, a free loop
  MaxTime,    \* bound: time stays in 0..MaxTime
  MaxChanges  \* bound: revocations, suspensions and edits there may be in all

Identity == [user : User, tenant : Tenant, roles : SUBSET (Role \cup {"system_admin"})]
Key      == Cred \X Tenant
Path     == {"token", "app"}  \* POST /auth/token, and everything that is not open
Stage    == {"idle", "arrived", "verify", "roles", "gate", "serving"}
Login    == [cred : Cred, began : Int, failed : BOOLEAN]  \* failed: its group search did

ASSUME UidAssumption   == UidOf \in [Cred -> User] /\ Principals \subseteq User
ASSUME TTLAssumption   == /\ TokenTTL \in Int /\ VerifyTTL \in Int
                          /\ AdmitTTL \in Int /\ AdmitTTL > 0
ASSUME BoundAssumption == MaxTime \in Nat /\ MaxChanges \in Nat
ASSUME NoneAssumption  ==
  None \notin Request \cup Cred \cup Token \cup Tenant \cup Identity \cup Login

VARIABLES
  loop,      \* the request whose coroutine has the event loop, or None
  req,       \* req[r]: the request on connection r
  session,   \* session[r]: what get_session() returns in r's context
  tokens, minted, refused,  \* the store; see TokenStore
  login,     \* login[tok]: the login that token was issued for (history)
  valid,     \* the keys ldap_manager would accept (external)
  groups,    \* groups[u][t]: the sets of u's groups in t that a directory holds (external)
  live,      \* the tenants the registry has as live (external)
  changes,   \* how often one was revoked, edited or suspended (bounds the runs)
  clock,     \* time
  lastValid, lastHeld, lastLive  \* when each key, membership, tenant last was (history)

store   == <<tokens, minted, refused>>
world   == <<valid, groups, live, changes>>
history == <<lastValid, lastHeld, lastLive>>
vars    == <<loop, req, session, tokens, minted, refused, login, valid, groups, live,
             changes, clock, lastValid, lastHeld, lastLive>>

Store  == INSTANCE TokenStore WITH
            NoEntry <- None, TTL <- TokenTTL, MaxSetback <- 0,
            now <- clock, elapsed <- clock, setback <- 0

ASSUME NoEntryAssumption == None \notin Store!Entry \cup Store!Birth

\* Their answers are used up at once, so none is kept.
NoAnswers == [r \in Request |-> None]
Verify == INSTANCE FreshAnswer WITH
            Client <- Request, Question <- Key, Window <- VerifyTTL,
            answer <- NoAnswers, lastTrue <- lastValid, slack <- 0
Admit  == INSTANCE FreshAnswer WITH
            Client <- Request, Question <- Tenant, Window <- AdmitTTL,
            answer <- NoAnswers, lastTrue <- lastLive, slack <- 0

Never == 0 - 1   \* before every request
Idle  == [stage |-> "idle", path |-> "app", cred |-> None, token |-> None,
          tenant |-> None, began |-> 0, since |-> 0, failed |-> FALSE, identity |-> None]

Init ==
  /\ loop = None
  /\ req = [r \in Request |-> Idle]
  /\ session = [r \in Request |-> None]
  /\ tokens = [tok \in Token |-> None] /\ minted = [tok \in Token |-> None]
  /\ refused = {} /\ login = [tok \in Token |-> None]
  /\ valid = Key /\ live = Tenant
  /\ groups \in [User -> [Tenant -> {{{}}, {Role}}]]
  /\ changes = 0 /\ clock = 0
  /\ lastValid = [k \in Key |-> 0]
  /\ lastHeld  = [u \in User |-> [t \in Tenant |-> [g \in SUBSET Role |->
                    IF g \in groups[u][t] THEN 0 ELSE Never]]]
  /\ lastLive  = [t \in Tenant |-> 0]
-----------------------------------------------------------------------------
At(r, stage) == req[r].stage = stage /\ (stage # "arrived" => loop = r)
Turn(r)      == loop = None /\ req[r].stage = "arrived"

\* The next request on connection r: any path, credential, token and tenant (the
\* one extract_tenant makes of its headers).  Logins are bounded by the tokens.
Arrive(r, path, cred, tok, t) ==
  /\ req[r].stage = "idle"
  /\ cred = None \/ tok = None
  /\ path = "token" => /\ tok = None
                       /\ Cardinality({q \in Request : req[q].path = "token"})
                            < Cardinality({k \in Token : minted[k] = None})
  /\ req' = [req EXCEPT ![r] = [Idle EXCEPT !.stage = "arrived", !.path = path,
                                            !.cred = cred, !.token = tok, !.tenant = t]]
  /\ UNCHANGED <<loop, session, store, login, world, clock, history>>

\* The answer is sent, with or without access; the loop goes to the next.
Finish(r) == loop' = None /\ req' = [req EXCEPT ![r] = Idle]

\* r goes on to a stage, holding the loop.
Hold(r, stage, id) ==
  /\ loop' = r
  /\ req' = [req EXCEPT ![r] = [@ EXCEPT !.stage = stage, !.since = clock, !.identity = id]]

\* No Authorization header, or one that is neither Bearer nor a decodable Basic:
\* 401; at /auth/token, no key or no secret: 400.
NoCredentials(r) ==
  /\ Turn(r) /\ req[r].cred = None /\ req[r].token = None
  /\ Finish(r)
  /\ UNCHANGED <<session, store, login, world, clock, history>>

Present_Restamped(r) ==
  /\ Turn(r) /\ req[r].token # None
  /\ Store!Resolve(req[r].token)
  /\ IF Store!Accepts(req[r].token)
       THEN Hold(r, "gate", [tokens[req[r].token].identity EXCEPT !.tenant = req[r].tenant])
       ELSE Finish(r)
  /\ UNCHANGED <<session, login, world, history>>

Present_Ungated(r) ==
  /\ Turn(r) /\ req[r].token # None
  /\ Store!Resolve(req[r].token)
  /\ LET id == tokens[req[r].token].identity IN
     IF Store!Accepts(req[r].token) /\ id.tenant = req[r].tenant
       THEN /\ loop' = None
            /\ req' = [req EXCEPT ![r].stage = "serving", ![r].since = clock, ![r].identity = id]
            /\ session' = [session EXCEPT ![r] = id]
       ELSE Finish(r) /\ UNCHANGED session
  /\ UNCHANGED <<login, world, history>>

\* A bearer token, resolved and held against the tenant of the request.
Present(r) ==
  /\ Turn(r) /\ req[r].token # None
  /\ Store!Resolve(req[r].token)
  /\ IF Store!Accepts(req[r].token) /\ tokens[req[r].token].identity.tenant = req[r].tenant
       THEN Hold(r, "gate", tokens[req[r].token].identity)
       ELSE Finish(r)
  /\ UNCHANGED <<session, login, world, history>>

\* A key:secret, on either path: the verifier is called ...
Ask(r) ==
  /\ Turn(r) /\ req[r].cred # None
  /\ loop' = r
  /\ req' = [req EXCEPT ![r] = [@ EXCEPT !.stage = "verify", !.began = clock, !.since = clock]]
  /\ UNCHANGED <<session, store, login, world, clock, history>>

Verified_OtherTenant(r) ==
  /\ At(r, "verify")
  /\ \/ /\ \E t \in Tenant : Verify!MayBeYes(<<req[r].cred, t>>, req[r].began)
        /\ Hold(r, "roles", None)
     \/ Finish(r)
  /\ UNCHANGED <<session, store, login, world, clock, history>>

\* ... and says yes, as a fresh answer may, or no ...
Verified(r) ==
  /\ At(r, "verify")
  /\ \/ /\ Verify!MayBeYes(<<req[r].cred, req[r].tenant>>, req[r].began)
        /\ Hold(r, "roles", None)
     \/ Finish(r)
  /\ UNCHANGED <<session, store, login, world, clock, history>>

\* The roles resolve_roles may come back with: of groups held during the call, or of
\* none when the group search failed.
Resolvable(r, failed) ==
  LET u == UidOf[req[r].cred] IN
  IF failed
    THEN {{}}
    ELSE {RolesFrom(g) : g \in {h \in SUBSET Role : lastHeld[u][req[r].tenant][h] >= req[r].since}}

IdentityOf_KeyId(r, roles) == [user |-> req[r].cred, tenant |-> req[r].tenant, roles |-> roles]

\* An identity with those roles, authenticated if it has any or needs none.
IdentityOf(r, roles) == [user |-> UidOf[req[r].cred], tenant |-> req[r].tenant, roles |-> roles]
Authenticated(id)    == id.roles # {} \/ id.user \in Principals

\* ... the roles are resolved, for a session: next is the gate ...
RolesForSession(r) ==
  /\ At(r, "roles") /\ req[r].path = "app"
  /\ \E failed \in BOOLEAN : \E roles \in Resolvable(r, failed) :
       /\ Authenticated(IdentityOf(r, roles))
       /\ req' = [req EXCEPT ![r] = [@ EXCEPT !.stage = "gate", !.since = clock, !.failed = failed,
                                               !.identity = IdentityOf(r, roles)]]
  /\ loop' = r
  /\ UNCHANGED <<session, store, login, world, clock, history>>

\* ... or for a token, issued at once to answer the login with: no gate here ...
RolesForToken(r) ==
  /\ At(r, "roles") /\ req[r].path = "token"
  /\ \E failed \in BOOLEAN, tok \in Token : \E roles \in Resolvable(r, failed) :
       /\ Authenticated(IdentityOf(r, roles))
       /\ Store!Issue(tok, IdentityOf(r, roles))
       /\ login' = [login EXCEPT ![tok] = [cred |-> req[r].cred, began |-> req[r].began,
                                           failed |-> failed]]
  /\ Finish(r)
  /\ UNCHANGED <<session, world, history>>

\* ... or there are none, or no directory answers, or a search raises: refused.
NoRoles(r) ==
  /\ At(r, "roles")
  /\ Finish(r)
  /\ UNCHANGED <<session, store, login, world, clock, history>>

SetSession_Shared(id, r) == session' = [q \in Request |-> id]

\* set_session: a context variable, so in the context of this request only.
SetSession(id, r) == session' = [session EXCEPT ![r] = id]

\* _gated: last of all the tenant's state.  Admitted, the session is set and the
\* application awaited ...
Admitted(r) ==
  /\ At(r, "gate")
  /\ Admit!MayBeYes(req[r].tenant, req[r].since)
  /\ SetSession(req[r].identity, r)
  /\ loop' = None /\ req' = [req EXCEPT ![r].stage = "serving"]
  /\ UNCHANGED <<store, login, world, clock, history>>

Refused_AsksAgain(r) ==
  /\ At(r, "gate")
  /\ req' = [req EXCEPT ![r].since = clock]
  /\ UNCHANGED <<loop, session, store, login, world, clock, history>>

\* ... and refused, the answer is 401.
Refused(r) ==
  /\ At(r, "gate")
  /\ Finish(r)
  /\ UNCHANGED <<session, store, login, world, clock, history>>

\* The application runs, reads the session and answers; finally it is reset.
Serve(r) ==
  /\ loop = None /\ req[r].stage = "serving"
  /\ session' = [session EXCEPT ![r] = None]
  /\ Finish(r)
  /\ UNCHANGED <<store, login, world, clock, history>>
-----------------------------------------------------------------------------
\* What is taken away or edited is counted; what is put back is not.
Changed == changes < MaxChanges /\ changes' = changes + 1

\* ldap_manager revokes a credential, or reinstates it (external).
Revoke(k) ==
  /\ Changed /\ k \in valid /\ valid' = valid \ {k}
  /\ UNCHANGED <<loop, req, session, store, login, groups, live, clock, history>>

Reinstate(k) ==
  /\ k \notin valid /\ valid' = valid \cup {k}
  /\ lastValid' = [lastValid EXCEPT ![k] = clock]
  /\ UNCHANGED <<loop, req, session, store, login, groups, live, changes, clock,
                 lastHeld, lastLive>>

\* The groups of u in t are edited, or the replica catches up (external).
Edit(u, t, held) ==
  /\ Changed /\ groups[u][t] # held
  /\ groups' = [groups EXCEPT ![u][t] = held]
  /\ lastHeld' = [lastHeld EXCEPT ![u][t] =
                    [g \in SUBSET Role |-> IF g \in held THEN clock ELSE @[g]]]
  /\ UNCHANGED <<loop, req, session, store, login, valid, live, clock, lastValid, lastLive>>

\* An operator suspends a tenant, or puts it back in service (external).
Suspend(t) ==
  /\ Changed /\ t \in live /\ live' = live \ {t}
  /\ UNCHANGED <<loop, req, session, store, login, valid, groups, clock, history>>

Resume(t) ==
  /\ t \notin live /\ live' = live \cup {t}
  /\ lastLive' = [lastLive EXCEPT ![t] = clock]
  /\ UNCHANGED <<loop, req, session, store, login, valid, groups, changes, clock,
                 lastValid, lastHeld>>

Tick ==
  /\ clock < MaxTime /\ clock' = clock + 1
  /\ lastValid' = [k \in Key |-> IF k \in valid THEN clock' ELSE lastValid[k]]
  /\ lastHeld'  = [u \in User |-> [t \in Tenant |-> [g \in SUBSET Role |->
                     IF g \in groups[u][t] THEN clock' ELSE lastHeld[u][t][g]]]]
  /\ lastLive'  = [t \in Tenant |-> IF t \in live THEN clock' ELSE lastLive[t]]
  /\ UNCHANGED <<loop, req, session, store, login, world>>

Environment ==
  \/ \E k \in Key : Revoke(k) \/ Reinstate(k)
  \/ \E u \in User, t \in Tenant, held \in (SUBSET (SUBSET Role)) \ {{}} : Edit(u, t, held)
  \/ \E t \in Tenant : Suspend(t) \/ Resume(t)
  \/ Tick

\* The turns of the loop a request waits for, and the steps it takes holding it.
Begin(r)    == NoCredentials(r) \/ Present(r) \/ Ask(r)
Continue(r) == \/ Verified(r)
               \/ RolesForSession(r) \/ RolesForToken(r) \/ NoRoles(r)
               \/ Admitted(r) \/ Refused(r)

Next ==
  \/ \E r \in Request, path \in Path, cred \in Cred \cup {None},
        tok \in Token \cup {None}, t \in Tenant : Arrive(r, path, cred, tok, t)
  \/ \E r \in Request : Begin(r) \/ Continue(r) \/ Serve(r)
  \/ Environment

Spec == Init /\ [][Next]_vars

\* The loop runs its ready callbacks in order, so a request that is ready again
\* and again gets its turn; and a call to ldap_manager, a directory or the core
\* is assumed to return or to fail.
Fairness ==
  \A r \in Request : /\ SF_vars(Begin(r)) /\ SF_vars(Serve(r))
                     /\ WF_vars(Continue(r))

FairSpec == Spec /\ Fairness
-----------------------------------------------------------------------------
RequestState == [stage : Stage, path : Path, cred : Cred \cup {None}, token : Token \cup {None},
             tenant : Tenant \cup {None}, began : 0..MaxTime, since : 0..MaxTime,
             failed : BOOLEAN, identity : Identity \cup {None}]

TypeOK ==
  /\ loop \in Request \cup {None}
  /\ req \in [Request -> RequestState]
  /\ session \in [Request -> Identity \cup {None}]
  /\ Store!TypeOK
  /\ login \in [Token -> Login \cup {None}]
  /\ valid \in SUBSET Key /\ live \in SUBSET Tenant
  /\ groups \in [User -> [Tenant -> SUBSET SUBSET Role]]
  /\ changes \in 0..MaxChanges
  /\ lastValid \in [Key -> Int] /\ lastLive \in [Tenant -> Int]
  /\ lastHeld \in [User -> [Tenant -> [SUBSET Role -> Int]]]

Serving(r) == req[r].stage = "serving"

\* The login whose credential r's access goes back to: its own, or its token's.
Basis(r) ==
  IF req[r].token = None
    THEN [cred |-> req[r].cred, began |-> req[r].began, failed |-> req[r].failed]
    ELSE login[req[r].token]

\* Whatever other requests do between a session being set and being read, the
\* application sees the user whose credential stands behind this request, in the
\* tenant this request named.
SessionIsCallers ==
  \A r \in Request : Serving(r) =>
    session[r] # None /\ session[r].user = UidOf[Basis(r).cred] /\ session[r].tenant = req[r].tenant

\* A request is served only on a credential that was valid, in the very tenant
\* served, during the login or less than VerifyTTL before it; and on a token, no
\* longer than TokenTTL after it was issued.
CredentialBound ==
  \A r \in Request : Serving(r) =>
    /\ Verify!MayBeYes(<<Basis(r).cred, req[r].tenant>>, Basis(r).began)
    /\ req[r].token # None => req[r].since <= minted[req[r].token].wall + TokenTTL

\* The roles in a session are those of groups the user was in, in the tenant served,
\* at one moment since the login began; never another tenant's.  None at all are held
\* only by a service principal: one that is in no group there, or one whose login met
\* a group search that failed, and who then goes without those it has.
RolesOfTenant ==
  \A r \in Request : Serving(r) =>
    /\ Authenticated(session[r])
    /\ IF Basis(r).failed
         THEN session[r].roles = {}
         ELSE \E g \in SUBSET Role :
                /\ session[r].roles = RolesFrom(g)
                /\ lastHeld[session[r].user][req[r].tenant][g] >= Basis(r).began

\* On both paths the tenant's state is asked for after all else: nobody is served
\* in a tenant that was not live since AdmitTTL before the credential was through.
GateBound ==
  \A r \in Request : Serving(r) => lastLive[req[r].tenant] > req[r].since - AdmitTTL

\* Every request is answered, however many others keep the loop busy.
EveryRequestAnswered ==
  \A r \in Request : req[r].stage = "arrived" ~> req[r].stage = "idle"
=============================================================================
