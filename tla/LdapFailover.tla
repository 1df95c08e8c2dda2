----------------------------- MODULE LdapFailover -----------------------------
(***************************************************************************)
(* ldap_auth.resolve_roles and authenticate, over roles_in_tenant and the  *)
(* failover.CircuitBreaker: whom a request may act as, read from the       *)
(* primary directory or, while that is down, from its replica.             *)
(*                                                                         *)
(* A call is a sequence of LDAP operations: connect (the service bind),    *)
(* search for the user, bind as the user (authenticate only), search for   *)
(* the groups.  Directories go down and come back, members are added and   *)
(* removed, and the replica catches up, at any point between them.  The    *)
(* server makes one call at a time, on its event-loop thread.              *)
(*                                                                         *)
(* Operators named X_Remark are deviations of the X that follows them.     *)
(***************************************************************************)
EXTENDS Integers, Sequences, TenantAccess

CONSTANTS
  User,
  Tenant,
  HomeTenant,      \* cfg.tenant, the one authenticate is for
  Role,            \* group cns; "administrators" is one
  Cooldown,        \* FILEENGINE_FAILOVER_COOLDOWN_S, any integer
  None,            \* no call, no answer yet, no such user
  MaxTime          \* bound: the clock stays in 0..MaxTime

Directory == {"primary", "replica"}
Status    == {"up", "down"}
Groups    == [Tenant -> SUBSET Role]     \* the groups a user is in, tenant by tenant
AllRoles  == Role \cup {"system_admin"}  \* what the core may see
Sight     == [directory : Directory, known : BOOLEAN, groups : SUBSET Role]

Targets == {<<"primary">>, <<"replica">>, <<"primary", "replica">>}
Phase   == {"connect", "find_user", "bind_user", "find_roles"}
Proof   == {"none",            \* resolve_roles: the credential was verified elsewhere
            "right", "wrong",  \* authenticate, by the user's password ...
            "empty"}           \* ... or with the password or the name left out
Call    == [user : User, tenant : Tenant, proof : Proof, targets : Targets,
            phase : Phase, time : Int]
Answer  == [user : User, tenant : Tenant, proof : Proof, time : Int,
            roles : SUBSET AllRoles, authenticated : BOOLEAN,
            outcome : {"offhand", "resolved", "search_failed", "not_found", "rejected",
                       "unreachable", "raised"}]   \* how it came about (history)

ASSUME TenantAssumption  == HomeTenant \in Tenant
ASSUME CooldownAssumption == Cooldown \in Int
ASSUME BoundAssumption    == MaxTime \in Nat
ASSUME NoneAssumption     == None \notin Groups \cup Call \cup Answer

VARIABLES
  cfg,        \* what Config read, once: is there a replica, and whom does
              \* service_principals(cfg) exempt from membership
  downUntil,  \* CircuitBreaker._down_until
  call,       \* the resolve_roles or authenticate in progress
  answer,     \* the last Identity returned, or the exception raised, until the next
              \* call (history)
  status,     \* which directories accept a bind (external)
  entry,      \* entry[d][u]: u's groups as d has them, or None: no such user (external)
  clock,      \* time.monotonic()
  seen,       \* what each directory held of the call's user in its tenant at each
              \* moment of the call (history)
  lastDown,   \* lastDown[d]: the last instant d was down (history)
  lastFail    \* the last instant the primary failed to answer a bind (history)

breaker     == <<downUntil>>
resolver    == <<downUntil, call, answer>>
environment == <<cfg, status, entry, clock>>
history     == <<seen, lastDown, lastFail>>
vars == <<cfg, downUntil, call, answer, status, entry, clock, seen, lastDown, lastFail>>

LongAgo == 0 - (IF Cooldown > 0 THEN Cooldown ELSE 0 - Cooldown)

Init ==
  /\ cfg \in [replica_enabled : BOOLEAN, principals : SUBSET User]
  /\ downUntil = 0 /\ call = None /\ answer = None
  /\ status = [d \in Directory |-> "up"]
  /\ entry \in {[d \in Directory |-> [u \in User |-> g]] : g \in Groups}
  /\ clock = 0
  /\ seen = {}
  /\ lastDown = [d \in Directory |-> LongAgo]
  /\ lastFail = LongAgo
-----------------------------------------------------------------------------
\* What a directory has of u in t; no such user is no groups anywhere.
HeldIn(e, d, u, t) == IF e[d][u] = None THEN {} ELSE e[d][u][t]

\* ... and whether it knows the user at all.
Seen(e, d, u, t) == [directory |-> d, known |-> e[d][u] # None, groups |-> HeldIn(e, d, u, t)]

\* CircuitBreaker.should_try_primary
ShouldTryPrimary == clock >= downUntil

LdapTargets_PrimaryLast ==
  CASE ~cfg.replica_enabled                     -> <<"primary">>
    [] cfg.replica_enabled /\ ShouldTryPrimary  -> <<"primary", "replica">>
    [] cfg.replica_enabled /\ ~ShouldTryPrimary -> <<"replica", "primary">>

\* _ldap_targets(cfg)
LdapTargets ==
  CASE ~cfg.replica_enabled                     -> <<"primary">>
    [] cfg.replica_enabled /\ ShouldTryPrimary  -> <<"primary", "replica">>
    [] cfg.replica_enabled /\ ~ShouldTryPrimary -> <<"replica">>

TenantsFor(proof) == IF proof = "none" THEN Tenant ELSE {HomeTenant}

Incomplete_Never(proof) == FALSE

Incomplete(proof) == proof = "empty"

\* resolve_roles(cfg, u, t), or authenticate(cfg, u, password), begins.
Resolve(u, t, proof) ==
  /\ call = None /\ ~Incomplete(proof)
  /\ call' = [user |-> u, tenant |-> t, proof |-> proof, targets |-> LdapTargets,
              phase |-> "connect", time |-> clock]
  /\ answer' = None
  /\ seen' = {Seen(entry, d, u, t) : d \in Directory}
  /\ UNCHANGED <<downUntil, environment, lastDown, lastFail>>

\* Without a name or a password no directory is asked.
RefuseOffhand(u, t, proof) ==
  /\ call = None /\ Incomplete(proof)
  /\ answer' = [user |-> u, tenant |-> t, proof |-> proof, time |-> clock, roles |-> {},
                authenticated |-> FALSE, outcome |-> "offhand"]
  /\ UNCHANGED <<downUntil, call, environment, history>>

Calling(phase) == call # None /\ call.phase = phase
Target == Head(call.targets)
OnPrimary == Target = "primary"

Reply(roles, authenticated, outcome) ==
  /\ answer' = [user |-> call.user, tenant |-> call.tenant, proof |-> call.proof,
                time |-> call.time, roles |-> roles, authenticated |-> authenticated, outcome |-> outcome]
  /\ call' = None /\ seen' = {}

\* A directory that answered: the primary's breaker is reset.
Answered == downUntil' = IF OnPrimary THEN 0 ELSE downUntil

\* The service bind succeeds.
Connect ==
  /\ Calling("connect") /\ status[Target] = "up"
  /\ call' = [call EXCEPT !.phase = "find_user"]
  /\ UNCHANGED <<downUntil, answer, environment, history>>

Trip_OnAnyTarget == downUntil' = clock + Cooldown

\* An unreachable primary trips the breaker for Cooldown from now.
Trip == downUntil' = IF OnPrimary THEN clock + Cooldown ELSE downUntil

FallOver_Never == Reply({}, FALSE, "unreachable")

\* The next target, if there is one; else an identity nobody authenticated.
FallOver ==
  \/ /\ Len(call.targets) > 1
     /\ call' = [call EXCEPT !.targets = Tail(call.targets)]
     /\ UNCHANGED <<answer, seen>>
  \/ /\ Len(call.targets) = 1
     /\ Reply({}, FALSE, "unreachable")

\* The service bind fails: _ServerUnreachable.
Unreachable ==
  /\ Calling("connect") /\ status[Target] = "down"
  /\ Trip
  /\ FallOver
  /\ lastFail' = IF OnPrimary THEN clock ELSE lastFail
  /\ UNCHANGED <<environment, lastDown>>

\* The search for the user finds an entry ...
FindUser ==
  /\ Calling("find_user") /\ entry[Target][call.user] # None
  /\ call' = [call EXCEPT !.phase = IF call.proof = "none" THEN "find_roles"
                                   ELSE "bind_user"]
  /\ UNCHANGED <<downUntil, answer, environment, history>>

\* ... or nobody ...
NoSuchUser ==
  /\ Calling("find_user") /\ entry[Target][call.user] = None
  /\ Answered
  /\ Reply({}, FALSE, "not_found")
  /\ UNCHANGED <<environment, lastDown, lastFail>>

\* ... or raises: no failover then, the exception ends the request.
SearchRaises ==
  /\ Calling("find_user")
  /\ Reply({}, FALSE, "raised")
  /\ UNCHANGED <<downUntil, environment, lastDown, lastFail>>

\* What a directory that is up takes for a proof of a DN: the right password, and
\* none at all, which binds as nobody.
Binds(proof) == proof \in {"right", "empty"}

\* A second connection, bound as the user ...
BindUser ==
  /\ Calling("bind_user") /\ status[Target] = "up" /\ Binds(call.proof)
  /\ call' = [call EXCEPT !.phase = "find_roles"]
  /\ UNCHANGED <<downUntil, answer, environment, history>>

\* ... or not: whatever the reason, this is the directory's answer.
BindRejected ==
  /\ Calling("bind_user") /\ (status[Target] = "down" \/ ~Binds(call.proof))
  /\ Answered
  /\ Reply({}, FALSE, "rejected")
  /\ UNCHANGED <<environment, lastDown, lastFail>>

GroupsFound_Everywhere ==
  UNION {HeldIn(entry, Target, call.user, t) : t \in Tenant}

\* The groups beneath the tenant's own ou.
GroupsFound == HeldIn(entry, Target, call.user, call.tenant)

\* No groups is no access, except for a service principal.
Admit(groups, outcome) ==
  LET roles == RolesFrom(groups)
  IN IF roles = {} /\ call.user \notin cfg.principals
       THEN Reply({}, FALSE, outcome)
       ELSE Reply(roles, TRUE, outcome)

\* The group search answers, or fails and counts as no groups.
FindRoles ==
  /\ Calling("find_roles")
  /\ Answered
  /\ Admit(GroupsFound, "resolved") \/ Admit({}, "search_failed")
  /\ UNCHANGED <<environment, lastDown, lastFail>>
-----------------------------------------------------------------------------
Fails(d) ==
  /\ status[d] = "up" /\ status' = [status EXCEPT ![d] = "down"]
  /\ lastDown' = [lastDown EXCEPT ![d] = clock]
  /\ UNCHANGED <<cfg, resolver, entry, clock, seen, lastFail>>

Recovers(d) ==
  /\ status[d] = "down" /\ status' = [status EXCEPT ![d] = "up"]
  /\ UNCHANGED <<cfg, resolver, entry, clock, history>>

\* seen grows with whatever the directories hold at any moment of the call.
Noted(e) ==
  seen' = IF call = None THEN {}
          ELSE seen \cup {Seen(e, d, call.user, call.tenant) : d \in Directory}

\* The administrators edit the primary; the replica follows later.
Edit(u, g) ==
  /\ entry["primary"][u] # g
  /\ entry' = [entry EXCEPT !["primary"][u] = g]
  /\ Noted(entry')
  /\ UNCHANGED <<cfg, resolver, status, clock, lastDown, lastFail>>

Replicate ==
  /\ entry["replica"] # entry["primary"]
  /\ entry' = [entry EXCEPT !["replica"] = entry["primary"]]
  /\ Noted(entry')
  /\ UNCHANGED <<cfg, resolver, status, clock, lastDown, lastFail>>

Tick ==
  /\ clock < MaxTime /\ clock' = clock + 1
  /\ lastDown' = [d \in Directory |-> IF status[d] = "down" THEN clock' ELSE lastDown[d]]
  /\ UNCHANGED <<cfg, resolver, status, entry, seen, lastFail>>

Step ==
  \/ \E u \in User, proof \in Proof : \E t \in TenantsFor(proof) :
       Resolve(u, t, proof) \/ RefuseOffhand(u, t, proof)
  \/ Connect \/ Unreachable \/ FindUser \/ NoSuchUser \/ SearchRaises
  \/ BindUser \/ BindRejected \/ FindRoles

Environment ==
  \/ \E d \in Directory : Fails(d) \/ Recovers(d)
  \/ \E u \in User, g \in Groups \cup {None} : Edit(u, g)
  \/ Replicate
  \/ Tick

Next == Step \/ Environment

Spec == Init /\ [][Next]_vars
-----------------------------------------------------------------------------
TypeOK ==
  /\ cfg \in [replica_enabled : BOOLEAN, principals : SUBSET User]
  /\ downUntil \in Int /\ clock \in 0..MaxTime
  /\ call \in Call \cup {None}
  /\ answer \in Answer \cup {None}
  /\ status \in [Directory -> Status]
  /\ entry \in [Directory -> [User -> Groups \cup {None}]]
  /\ seen \in SUBSET Sight
  /\ lastDown \in [Directory -> Int] /\ lastFail \in Int

\* An identity is that of a user whom the directory that answered knew at one moment
\* of the call.  Its roles are exactly those that this directory held for the user in
\* that tenant at one moment of the call: nothing of another tenant, nothing pieced
\* together from the two directories or from before and after an edit.  They are none
\* at all where the group search failed, whatever it held; and nobody but a service
\* principal is authenticated without a role.
RolesHeldThere ==
  [][answer' \notin {answer, None} /\ answer'.authenticated =>
       LET there == {s \in seen : s.directory = Target}
       IN /\ \E s \in there : s.known
          /\ IF answer'.outcome = "search_failed"
               THEN answer'.roles = {}
               ELSE \E s \in there : answer'.roles = RolesFrom(s.groups)
          /\ answer'.roles = {} => answer'.user \in cfg.principals]_vars

\* Where a password is asked for, only the right one authenticates, though to a
\* directory an empty one is a bind that succeeds, and though the user may be a
\* service principal, who needs no role.
PasswordProven ==
  answer # None /\ answer.authenticated => answer.proof \in {"none", "right"}

\* "Unreachable" is only said when it is so: the replica, if there is one, was
\* down during the call, and the primary during it or in the cooldown before.
UnreachableMeansBoth ==
  answer # None /\ answer.outcome = "unreachable" =>
    /\ cfg.replica_enabled => lastDown["replica"] >= answer.time
    /\ \/ lastDown["primary"] >= answer.time
       \/ cfg.replica_enabled /\ answer.time < lastDown["primary"] + Cooldown

\* With a replica, a call goes to the primary first if and only if the primary
\* has not failed a bind in the cooldown before it: it is spared while it is
\* down, and probed by the very first call afterwards, whatever the replica does.
PrimaryIffDue ==
  [][call = None /\ call' # None /\ cfg.replica_enabled =>
       (Head(call'.targets) = "primary" <=> clock >= lastFail + Cooldown)]_vars
=============================================================================
