------------------------ MODULE LdapFailoverProofs ------------------------
(***************************************************************************)
(* Every property of LdapFailover, for any users, tenants and cooldown.    *)
(*                                                                         *)
(* IInv adds to the types what links the breaker to the directories' past: *)
(* when it may send a call past the primary, and what a call that has been *)
(* sent past it, or asks it, may rely on.                                  *)
(***************************************************************************)
EXTENDS LdapFailover, TLAPS

\* The history of a directory that is down reaches the present, none the future.
PastSound ==
  /\ \A d \in Directory : lastDown[d] <= clock /\ (status[d] = "down" => lastDown[d] = clock)
  /\ lastFail <= lastDown["primary"]

\* The primary has not failed in the cooldown before now.
Due == clock >= lastFail + Cooldown

\* With a replica the breaker is open until a cooldown after the last failure, or
\* it is closed and that time has passed.
BreakerSound ==
  cfg.replica_enabled => downUntil = lastFail + Cooldown \/ (clock >= downUntil /\ Due)

\* What excuses a call that does not ask the primary.
PrimaryWasOut(time) ==
  lastDown["primary"] >= time \/ time < lastDown["primary"] + Cooldown

\* A call asks the primary only if it was due, and the replica instead only if the
\* primary was out.
CallSound ==
  call # None =>
    /\ call.time <= clock
    /\ ~cfg.replica_enabled => call.targets = <<"primary">>
    /\ cfg.replica_enabled =>
         \/ call.targets = <<"primary", "replica">> /\ clock >= downUntil /\ Due
         \/ call.targets = <<"replica">> /\ PrimaryWasOut(call.time)
    /\ call.proof # "empty"
    /\ call.phase = "find_roles" => call.proof \in {"none", "right"}

\* A call in progress has noted what the directories hold, and past the search for
\* the user, that the one it asks knew the user.
SeenSound ==
  call # None =>
    /\ \A d \in Directory : Seen(entry, d, call.user, call.tenant) \in seen
    /\ call.phase \in {"bind_user", "find_roles"} =>
         \E s \in seen : s.directory = Target /\ s.known

IInv ==
  /\ TypeOK /\ PastSound /\ BreakerSound /\ CallSound /\ SeenSound
  /\ PasswordProven /\ UnreachableMeansBoth

LEMMA LongAgoOK == LongAgo \in Int /\ LongAgo <= 0 /\ LongAgo + Cooldown <= 0
BY CooldownAssumption DEF LongAgo

\* No call in progress and no answer is either.
LEMMA NotNone == None \notin Call /\ None \notin Answer /\ None \notin Groups
BY NoneAssumption

\* What a directory holds of a user in a tenant is a set of groups, and the sight of
\* it one of the sights.
LEMMA HeldOK ==
  ASSUME NEW e \in [Directory -> [User -> Groups \cup {None}]], NEW d \in Directory,
         NEW u \in User, NEW t \in Tenant
  PROVE  HeldIn(e, d, u, t) \in SUBSET Role /\ Seen(e, d, u, t) \in Sight
<1>1. HeldIn(e, d, u, t) \in SUBSET Role
  BY NotNone DEF HeldIn, Groups
<1> QED
  BY <1>1 DEF Seen, Sight

\* The roles made of groups are roles; of no groups, none.
LEMMA RolesOK ==
  /\ \A g \in SUBSET Role : RolesFrom(g) \in SUBSET AllRoles
  /\ RolesFrom({}) = {}
BY DEF RolesFrom, AllRoles

LEMMA Initially == Init => IInv
<1> SUFFICES ASSUME Init PROVE IInv
  OBVIOUS
<1>1. TypeOK
  <2>1. entry \in [Directory -> [User -> Groups \cup {None}]]
    BY DEF Init
  <2> QED
    BY <2>1, LongAgoOK, BoundAssumption DEF Init, TypeOK, Status
<1>2. PastSound /\ BreakerSound
  BY LongAgoOK, CooldownAssumption DEF Init, PastSound, BreakerSound, Due, Directory
<1>3. CallSound /\ SeenSound /\ PasswordProven /\ UnreachableMeansBoth
  BY DEF Init, CallSound, SeenSound, PasswordProven, UnreachableMeansBoth
<1> QED
  BY <1>1, <1>2, <1>3 DEF IInv
-----------------------------------------------------------------------------
\* A new call: the breaker sends it past the primary only while that is excused.
LEMMA ResolveStep ==
  ASSUME IInv, NEW u \in User, NEW t \in Tenant, NEW proof \in Proof, Resolve(u, t, proof)
  PROVE  IInv'
<1> DEFINE c == [user |-> u, tenant |-> t, proof |-> proof, targets |-> LdapTargets,
                 phase |-> "connect", time |-> clock]
<1>1. /\ call' = c /\ answer' = None /\ proof # "empty"
      /\ seen' = {Seen(entry, d, u, t) : d \in Directory}
      /\ UNCHANGED <<cfg, downUntil, status, entry, clock, lastDown, lastFail>>
  BY DEF Resolve, Incomplete, environment
<1>2. LdapTargets \in Targets
  BY DEF LdapTargets, Targets
<1>3. TypeOK'
  <2>1. c \in Call
    BY <1>2, BoundAssumption DEF IInv, TypeOK, Call, Phase
  <2>2. seen' \in SUBSET Sight
    BY <1>1, HeldOK DEF IInv, TypeOK
  <2> QED
    BY <1>1, <2>1, <2>2 DEF IInv, TypeOK
<1>4. PastSound' /\ BreakerSound'
  BY <1>1 DEF IInv, PastSound, BreakerSound, Due
<1>5. CallSound'
  <2>1. ~cfg.replica_enabled => LdapTargets = <<"primary">>
    BY DEF LdapTargets
  <2>2. cfg.replica_enabled =>
          \/ LdapTargets = <<"primary", "replica">> /\ clock >= downUntil /\ Due
          \/ LdapTargets = <<"replica">> /\ PrimaryWasOut(clock)
    <3> SUFFICES ASSUME cfg.replica_enabled
                 PROVE  \/ LdapTargets = <<"primary", "replica">> /\ clock >= downUntil /\ Due
                        \/ LdapTargets = <<"replica">> /\ PrimaryWasOut(clock)
      OBVIOUS
    <3>0. /\ clock \in Int /\ downUntil \in Int /\ lastFail \in Int /\ lastDown["primary"] \in Int
          /\ Cooldown \in Int
      BY CooldownAssumption, BoundAssumption DEF IInv, TypeOK, Directory
    <3>1. CASE ShouldTryPrimary
      <4>1. clock >= downUntil
        BY <3>1 DEF ShouldTryPrimary
      <4>2. Due
        BY <4>1, <3>0 DEF IInv, BreakerSound, Due
      <4> QED
        BY <3>1, <4>1, <4>2 DEF LdapTargets
    <3>2. CASE ~ShouldTryPrimary
      <4>1. clock < lastFail + Cooldown
        BY <3>2, <3>0 DEF IInv, BreakerSound, ShouldTryPrimary
      <4>2. PrimaryWasOut(clock)
        BY <4>1, <3>0 DEF IInv, PastSound, PrimaryWasOut
      <4> QED
        BY <3>2, <4>2 DEF LdapTargets
    <3> QED
      BY <3>1, <3>2
  <2>3. clock <= clock
    BY BoundAssumption DEF IInv, TypeOK
  <2> QED
    BY <1>1, <2>1, <2>2, <2>3 DEF CallSound, Due, PrimaryWasOut
<1>6. PasswordProven' /\ UnreachableMeansBoth'
  BY <1>1 DEF PasswordProven, UnreachableMeansBoth
<1>7. SeenSound'
  BY <1>1 DEF SeenSound
<1> QED
  BY <1>3, <1>4, <1>5, <1>6, <1>7 DEF IInv

\* A refusal before any directory is asked.
LEMMA OffhandStep ==
  ASSUME IInv, NEW u \in User, NEW t \in Tenant, NEW proof \in Proof,
         RefuseOffhand(u, t, proof)
  PROVE  IInv'
<1> DEFINE a == [user |-> u, tenant |-> t, proof |-> proof, time |-> clock, roles |-> {},
                 authenticated |-> FALSE, outcome |-> "offhand"]
<1>1. /\ answer' = a /\ call = None
      /\ UNCHANGED <<cfg, downUntil, call, status, entry, clock, seen, lastDown, lastFail>>
  BY DEF RefuseOffhand, environment, history
<1>2. TypeOK'
  <2>1. a \in Answer
    BY BoundAssumption DEF IInv, TypeOK, Answer
  <2> QED
    BY <1>1, <2>1 DEF IInv, TypeOK
<1>3. PastSound' /\ BreakerSound' /\ CallSound' /\ SeenSound'
  BY <1>1 DEF IInv, PastSound, BreakerSound, Due, CallSound, SeenSound
<1>4. PasswordProven' /\ UnreachableMeansBoth'
  BY <1>1 DEF PasswordProven, UnreachableMeansBoth
<1> QED
  BY <1>2, <1>3, <1>4 DEF IInv

\* The call goes on to another phase; only a password that is right brings it, if
\* one was given at all, to the groups.
LEMMA AdvanceStep ==
  ASSUME IInv, call # None, NEW p \in Phase, call' = [call EXCEPT !.phase = p],
         p = "find_roles" => call.proof \in {"none", "right"},
         p \in {"bind_user", "find_roles"} => \E s \in seen : s.directory = Target /\ s.known,
         UNCHANGED <<downUntil, answer, environment, history>>
  PROVE  IInv'
<1>1. /\ call \in Call /\ call' \in Call
      /\ call'.user = call.user /\ call'.tenant = call.tenant /\ call'.proof = call.proof
      /\ call'.targets = call.targets /\ call'.time = call.time /\ call'.phase = p
  BY DEF IInv, TypeOK, Call
<1>2. UNCHANGED <<cfg, downUntil, answer, status, entry, clock, seen, lastDown, lastFail>>
  BY DEF environment, history
<1>3. TypeOK'
  BY <1>1, <1>2 DEF IInv, TypeOK
<1>4. PastSound' /\ BreakerSound'
  BY <1>2 DEF IInv, PastSound, BreakerSound, Due
<1>5. CallSound'
  BY <1>1, <1>2 DEF IInv, CallSound, Due, PrimaryWasOut
<1>6. PasswordProven' /\ UnreachableMeansBoth'
  BY <1>2 DEF IInv, PasswordProven, UnreachableMeansBoth
<1>7. SeenSound'
  BY <1>1, <1>2 DEF IInv, SeenSound, Target
<1> QED
  BY <1>3, <1>4, <1>5, <1>6, <1>7 DEF IInv

\* What is answered is an Answer.
LEMMA ReplyTyped ==
  ASSUME call \in Call, NEW roles \in SUBSET AllRoles, NEW authenticated \in BOOLEAN,
         NEW outcome \in {"resolved", "search_failed", "not_found", "rejected",
                          "unreachable", "raised"},
         Reply(roles, authenticated, outcome)
  PROVE  /\ call' = None /\ seen' = {} /\ answer' \in Answer
         /\ answer'.proof = call.proof /\ answer'.time = call.time
         /\ answer'.outcome = outcome
         /\ answer'.authenticated = authenticated
<1> DEFINE a == [user |-> call.user, tenant |-> call.tenant, proof |-> call.proof,
                 time |-> call.time, roles |-> roles, authenticated |-> authenticated,
                 outcome |-> outcome]
<1>1. a \in Answer
  BY DEF Call, Answer
<1>2. answer' = a /\ call' = None /\ seen' = {}
  BY DEF Reply
<1> QED
  BY <1>1, <1>2

\* A directory answers the call for good: the breaker is closed only by a primary
\* that was due.
LEMMA ReplyStep ==
  ASSUME IInv, call # None, NEW roles \in SUBSET AllRoles, NEW authenticated \in BOOLEAN,
         NEW outcome \in {"resolved", "search_failed", "not_found", "rejected", "raised"},
         Reply(roles, authenticated, outcome),
         authenticated => call.proof \in {"none", "right"},
         Answered \/ UNCHANGED downUntil,
         UNCHANGED <<environment, lastDown, lastFail>>
  PROVE  IInv'
<1>0. call \in Call
  BY DEF IInv, TypeOK
<1>1. /\ call' = None /\ seen' = {} /\ answer' \in Answer
      /\ answer'.proof = call.proof /\ answer'.outcome = outcome
      /\ answer'.authenticated = authenticated
  BY <1>0, ReplyTyped
<1>2. UNCHANGED <<cfg, status, entry, clock, lastDown, lastFail>>
  BY DEF environment
<1>3. downUntil' = downUntil \/ (OnPrimary /\ downUntil' = 0)
  BY DEF Answered
<1>4. TypeOK'
  BY <1>1, <1>2, <1>3 DEF IInv, TypeOK
<1>5. PastSound' /\ CallSound' /\ SeenSound'
  BY <1>1, <1>2 DEF IInv, PastSound, CallSound, SeenSound
<1>6. BreakerSound'
  <2>1. CASE downUntil' = downUntil
    BY <2>1, <1>2 DEF IInv, BreakerSound, Due
  <2>2. CASE OnPrimary /\ downUntil' = 0
    <3>1. cfg.replica_enabled => Due
      BY <2>2 DEF IInv, CallSound, OnPrimary, Target
    <3>2. clock >= 0
      BY BoundAssumption DEF IInv, TypeOK
    <3> QED
      BY <1>2, <2>2, <3>1, <3>2 DEF BreakerSound, Due
  <2> QED
    BY <1>3, <2>1, <2>2
<1>7. PasswordProven' /\ UnreachableMeansBoth'
  BY <1>1 DEF PasswordProven, UnreachableMeansBoth
<1> QED
  BY <1>4, <1>5, <1>6, <1>7 DEF IInv

\* A directory cannot be reached: the primary opens the breaker and excuses the
\* call from then on; the replica is the last there is.
LEMMA UnreachableStep == ASSUME IInv, Unreachable PROVE IInv'
<1>1. /\ call # None /\ call \in Call /\ status[Target] = "down" /\ Trip /\ FallOver
      /\ lastFail' = IF OnPrimary THEN clock ELSE lastFail
      /\ call.phase = "connect"
      /\ UNCHANGED <<cfg, status, entry, clock, lastDown>>
  BY DEF Unreachable, Calling, environment, IInv, TypeOK
<1>2. /\ clock \in Int /\ downUntil \in Int /\ lastFail \in Int /\ Cooldown \in Int
      /\ lastDown["primary"] \in Int /\ lastDown["replica"] \in Int /\ call.time \in Int
  BY <1>1, CooldownAssumption, BoundAssumption DEF IInv, TypeOK, Directory, Call
<1>3. \/ call.targets = <<"primary">> /\ ~cfg.replica_enabled
      \/ call.targets = <<"primary", "replica">> /\ cfg.replica_enabled
      \/ call.targets = <<"replica">> /\ cfg.replica_enabled /\ PrimaryWasOut(call.time)
  BY <1>1 DEF IInv, CallSound
<1>4. Target \in Directory /\ lastDown[Target] = clock
  BY <1>1, <1>3 DEF IInv, PastSound, Target, Directory
<1>5. call.time <= clock
  BY <1>1 DEF IInv, CallSound
<1>6. CASE call.targets = <<"primary", "replica">> /\ cfg.replica_enabled
  <2>1. OnPrimary /\ lastDown["primary"] = clock
    BY <1>4, <1>6 DEF OnPrimary, Target
  <2>2. Len(call.targets) # 1 /\ Tail(call.targets) = <<"replica">>
    BY <1>6
  <2>3. call' = [call EXCEPT !.targets = <<"replica">>] /\ answer' = answer /\ seen' = seen
    BY <1>1, <2>2, Zenon DEF FallOver
  <2>4. /\ call' \in Call /\ call' # None /\ call'.targets = <<"replica">>
        /\ call'.user = call.user /\ call'.tenant = call.tenant /\ call'.proof = call.proof
        /\ call'.time = call.time /\ call'.phase = call.phase
    BY <1>1, <2>3, NotNone DEF Call, Targets
  <2>5. downUntil' = clock + Cooldown /\ lastFail' = clock
    BY <1>1, <2>1 DEF Trip
  <2>6. TypeOK'
    BY <1>1, <1>2, <2>3, <2>4, <2>5 DEF IInv, TypeOK
  <2>7. PastSound' /\ BreakerSound'
    BY <1>1, <1>2, <2>1, <2>5 DEF IInv, PastSound, BreakerSound, Due
  <2>8. CallSound'
    BY <1>1, <1>2, <1>5, <1>6, <2>1, <2>4 DEF IInv, CallSound, PrimaryWasOut
  <2>10. SeenSound'
    BY <1>1, <2>3, <2>4 DEF IInv, SeenSound
  <2>9. PasswordProven' /\ UnreachableMeansBoth'
    BY <1>1, <2>3 DEF IInv, PasswordProven, UnreachableMeansBoth
  <2> QED
    BY <2>6, <2>7, <2>8, <2>9, <2>10 DEF IInv
<1>7. CASE Len(call.targets) = 1
  <2>0. ~(Len(call.targets) > 1)
    BY <1>7
  <2>1. Reply({}, FALSE, "unreachable")
    BY <1>1, <2>0, Zenon DEF FallOver
  <2>2. /\ call' = None /\ seen' = {} /\ answer' \in Answer /\ answer'.time = call.time
        /\ answer'.authenticated = FALSE
    BY <1>1, <2>1, ReplyTyped
  <2>3. \/ downUntil' = downUntil /\ lastFail' = lastFail /\ ~OnPrimary
        \/ downUntil' = clock + Cooldown /\ lastFail' = clock /\ OnPrimary
    BY <1>1 DEF Trip
  <2>4. TypeOK'
    BY <1>1, <1>2, <2>2, <2>3 DEF IInv, TypeOK
  <2>5. PastSound' /\ BreakerSound'
    BY <1>1, <1>2, <1>4, <2>3 DEF IInv, PastSound, BreakerSound, Due, OnPrimary
  <2>6. CallSound' /\ SeenSound' /\ PasswordProven'
    BY <2>2 DEF CallSound, SeenSound, PasswordProven
  <2>7. UnreachableMeansBoth'
    <3>1. CASE call.targets = <<"primary">> /\ ~cfg.replica_enabled
      <4>1. lastDown["primary"] = clock
        BY <1>4, <3>1 DEF Target
      <4> QED
        BY <1>1, <1>2, <1>5, <2>2, <3>1, <4>1 DEF UnreachableMeansBoth
    <3>2. CASE call.targets = <<"replica">> /\ cfg.replica_enabled /\ PrimaryWasOut(call.time)
      <4>1. lastDown["replica"] = clock
        BY <1>4, <3>2 DEF Target
      <4> QED
        BY <1>1, <1>2, <1>5, <2>2, <3>2, <4>1 DEF UnreachableMeansBoth, PrimaryWasOut
    <3> QED
      BY <1>3, <1>7, <3>1, <3>2
  <2> QED
    BY <2>4, <2>5, <2>6, <2>7 DEF IInv
<1> QED
  BY <1>3, <1>6, <1>7

\* Whoever is admitted by some groups, or by none, is answered with their roles.
LEMMA AdmitReplies ==
  ASSUME NEW groups \in SUBSET Role, NEW outcome, Admit(groups, outcome)
  PROVE  \E roles \in SUBSET AllRoles, authenticated \in BOOLEAN :
           /\ Reply(roles, authenticated, outcome)
           /\ authenticated => /\ roles = RolesFrom(groups)
                               /\ roles = {} => call.user \in cfg.principals
<1>1. RolesFrom(groups) \in SUBSET AllRoles
  BY RolesOK
<1>2. CASE RolesFrom(groups) = {} /\ call.user \notin cfg.principals
  <2>1. Reply({}, FALSE, outcome)
    BY <1>2 DEF Admit
  <2>2. {} \in SUBSET AllRoles /\ FALSE \in BOOLEAN
    OBVIOUS
  <2> QED
    BY <2>1, <2>2, Zenon
<1>3. CASE ~(RolesFrom(groups) = {} /\ call.user \notin cfg.principals)
  <2>1. Reply(RolesFrom(groups), TRUE, outcome)
    BY <1>3 DEF Admit
  <2>2. RolesFrom(groups) = {} => call.user \in cfg.principals
    BY <1>3
  <2>3. TRUE \in BOOLEAN
    OBVIOUS
  <2> QED
    BY <1>1, <2>1, <2>2, <2>3, Zenon
<1> QED
  BY <1>2, <1>3

\* The groups found are those of the directory asked, as the call has noted them.
LEMMA GroupsNoted ==
  ASSUME IInv, call # None
  PROVE  /\ GroupsFound \in SUBSET Role
         /\ \E s \in seen : s.directory = Target /\ s.groups = GroupsFound
<1>1. call \in Call /\ call.user \in User /\ call.tenant \in Tenant
  BY DEF IInv, TypeOK, Call
<1>2. Target \in Directory
  BY <1>1 DEF IInv, CallSound, Target, Directory
<1>3. GroupsFound \in SUBSET Role
  BY <1>1, <1>2, HeldOK DEF IInv, TypeOK, GroupsFound
<1>4. Seen(entry, Target, call.user, call.tenant) \in seen
  BY <1>2 DEF IInv, SeenSound
<1> QED
  BY <1>3, <1>4 DEF Seen, GroupsFound

\* The group search: the roles of the groups found, or of none if it failed.
LEMMA FindRolesStep == ASSUME IInv, FindRoles PROVE IInv'
<1>1. /\ call # None /\ call \in Call /\ call.phase = "find_roles" /\ Answered
      /\ UNCHANGED <<environment, lastDown, lastFail>>
  BY DEF FindRoles, Calling, IInv, TypeOK
<1>2. PICK groups \in SUBSET Role, outcome \in {"resolved", "search_failed"} :
        Admit(groups, outcome)
  BY <1>1, GroupsNoted, Zenon DEF FindRoles
<1>3. PICK roles \in SUBSET AllRoles, authenticated \in BOOLEAN :
        Reply(roles, authenticated, outcome)
  BY <1>2, AdmitReplies
<1>4. call.proof \in {"none", "right"}
  BY <1>1 DEF IInv, CallSound
<1> QED
  BY <1>1, <1>3, <1>4, ReplyStep

\* Directories come and go, time passes.
LEMMA AvailabilityStep ==
  ASSUME IInv, (\E d \in Directory : Fails(d) \/ Recovers(d)) \/ Tick
  PROVE  IInv'
<1>0. /\ clock \in Int /\ downUntil \in Int /\ lastFail \in Int /\ Cooldown \in Int
      /\ lastDown \in [Directory -> Int] /\ clock >= 0 /\ clock <= MaxTime /\ MaxTime \in Nat
  BY CooldownAssumption, BoundAssumption DEF IInv, TypeOK
<1>1. UNCHANGED <<cfg, downUntil, call, answer, entry, seen, lastFail>>
  BY DEF Fails, Recovers, Tick, resolver, history
<1>2. /\ clock' \in 0..MaxTime /\ clock' >= clock
      /\ status' \in [Directory -> Status]
      /\ lastDown' \in [Directory -> Int]
      /\ \A d \in Directory : /\ lastDown'[d] >= lastDown[d] /\ lastDown'[d] <= clock'
                              /\ status'[d] = "down" => lastDown'[d] = clock'
  <2>1. CASE Tick
    BY <1>0, <2>1 DEF Tick, IInv, TypeOK, PastSound, Status
  <2>2. CASE \E d \in Directory : Fails(d)
    BY <1>0, <2>2 DEF Fails, IInv, TypeOK, PastSound, Status
  <2>3. CASE \E d \in Directory : Recovers(d)
    BY <1>0, <2>3 DEF Recovers, history, IInv, TypeOK, PastSound, Status
  <2> QED
    BY <2>1, <2>2, <2>3
<1> DEFINE P == lastDown["primary"]
           R == lastDown["replica"]
<1>a. /\ P \in Int /\ R \in Int /\ P' \in Int /\ R' \in Int /\ P' >= P /\ R' >= R
  <2>1. "primary" \in Directory /\ "replica" \in Directory
    BY DEF Directory
  <2> QED
    BY <1>0, <1>2, <2>1
<1>3. TypeOK'
  BY <1>1, <1>2 DEF IInv, TypeOK
<1>4. PastSound'
  <2>1. lastFail <= P
    BY DEF IInv, PastSound
  <2>2. lastFail' <= P'
    BY <1>0, <1>1, <1>a, <2>1
  <2>3. \A d \in Directory :
          lastDown'[d] <= clock' /\ (status'[d] = "down" => lastDown'[d] = clock')
    BY <1>2
  <2> QED
    BY <2>2, <2>3 DEF PastSound
<1>5. BreakerSound'
  BY <1>0, <1>1, <1>2 DEF IInv, BreakerSound, Due
<1>6. CallSound'
  <2> SUFFICES ASSUME call # None PROVE CallSound'
    BY <1>1 DEF CallSound
  <2>1. call.time \in Int
    BY DEF IInv, TypeOK, Call
  <2>2. PrimaryWasOut(call.time) => PrimaryWasOut(call.time)'
    <3>1. P >= call.time \/ call.time < P + Cooldown
            => P' >= call.time \/ call.time < P' + Cooldown
      BY <1>0, <1>a, <2>1
    <3> QED
      BY <1>1, <3>1 DEF PrimaryWasOut
  <2> QED
    BY <1>0, <1>1, <1>2, <2>1, <2>2 DEF IInv, CallSound, Due
<1>7. PasswordProven' /\ SeenSound'
  BY <1>1 DEF IInv, PasswordProven, SeenSound, Target
<1>8. UnreachableMeansBoth'
  <2> SUFFICES ASSUME answer # None PROVE UnreachableMeansBoth'
    BY <1>1 DEF UnreachableMeansBoth
  <2>1. answer.time \in Int
    BY DEF IInv, TypeOK, Answer
  <2> SUFFICES ASSUME answer.outcome = "unreachable"
               PROVE  /\ cfg.replica_enabled => R' >= answer.time
                      /\ P' >= answer.time \/ (cfg.replica_enabled /\ answer.time < P' + Cooldown)
    BY <1>1 DEF UnreachableMeansBoth
  <2>2. /\ cfg.replica_enabled => R >= answer.time
        /\ P >= answer.time \/ (cfg.replica_enabled /\ answer.time < P + Cooldown)
    BY DEF IInv, UnreachableMeansBoth
  <2> QED
    BY <1>0, <1>a, <2>1, <2>2
<1> QED
  BY <1>3, <1>4, <1>5, <1>6, <1>7, <1>8 DEF IInv

\* What the directories hold changes: a call in progress notes it.
LEMMA EntryStep ==
  ASSUME IInv, (\E u \in User, g \in Groups \cup {None} : Edit(u, g)) \/ Replicate
  PROVE  IInv'
<1>1. /\ UNCHANGED <<cfg, downUntil, call, answer, status, clock, lastDown, lastFail>>
      /\ Noted(entry')
  BY DEF Edit, Replicate, resolver
<1>2. entry' \in [Directory -> [User -> Groups \cup {None}]]
  <2>1. entry \in [Directory -> [User -> Groups \cup {None}]]
    BY DEF IInv, TypeOK
  <2>2. ASSUME NEW u \in User, NEW g \in Groups \cup {None}, Edit(u, g)
        PROVE  entry' \in [Directory -> [User -> Groups \cup {None}]]
    <3>1. entry' = [entry EXCEPT !["primary"] = [entry["primary"] EXCEPT ![u] = g]]
      BY <2>2 DEF Edit
    <3>2. [entry["primary"] EXCEPT ![u] = g] \in [User -> Groups \cup {None}]
      BY <2>1 DEF Directory
    <3> QED
      BY <2>1, <3>1, <3>2
  <2>3. CASE Replicate
    BY <2>1, <2>3 DEF Replicate, Directory
  <2> QED
    BY <2>2, <2>3
<1>3. call # None =>
        /\ seen' = seen \cup {Seen(entry', d, call.user, call.tenant) : d \in Directory}
        /\ call.user \in User /\ call.tenant \in Tenant
  BY <1>1 DEF Noted, IInv, TypeOK, Call
<1>4. seen' \in SUBSET Sight
  <2>1. CASE call = None
    BY <1>1, <2>1 DEF Noted
  <2>2. CASE call # None
    BY <1>2, <1>3, <2>2, HeldOK DEF IInv, TypeOK
  <2> QED
    BY <2>1, <2>2
<1>5. TypeOK'
  BY <1>1, <1>2, <1>4 DEF IInv, TypeOK
<1>6. PastSound' /\ BreakerSound' /\ PasswordProven' /\ UnreachableMeansBoth'
  BY <1>1 DEF IInv, PastSound, BreakerSound, Due, PasswordProven, UnreachableMeansBoth
<1>7. CallSound'
  BY <1>1 DEF IInv, CallSound, Due, PrimaryWasOut
<1>8. SeenSound'
  BY <1>1, <1>3 DEF IInv, SeenSound, Target
<1> QED
  BY <1>5, <1>6, <1>7, <1>8 DEF IInv
-----------------------------------------------------------------------------
LEMMA Consecution == IInv /\ [Next]_vars => IInv'
<1> SUFFICES ASSUME IInv, [Next]_vars PROVE IInv'
  OBVIOUS
<1>1. CASE \E u \in User, proof \in Proof : \E t \in TenantsFor(proof) :
             Resolve(u, t, proof) \/ RefuseOffhand(u, t, proof)
  <2>1. PICK u \in User, proof \in Proof, t \in Tenant :
          Resolve(u, t, proof) \/ RefuseOffhand(u, t, proof)
    BY <1>1, TenantAssumption DEF TenantsFor
  <2> QED
    BY <2>1, ResolveStep, OffhandStep
<1>2. CASE Connect \/ FindUser \/ BindUser
  <2>1. PICK p \in Phase :
          /\ call # None /\ call' = [call EXCEPT !.phase = p]
          /\ p = "find_roles" => call.proof \in {"none", "right"}
          /\ p \in {"bind_user", "find_roles"} =>
               \E s \in seen : s.directory = Target /\ s.known
          /\ UNCHANGED <<downUntil, answer, environment, history>>
    <3>1. CASE Connect
      BY <3>1 DEF Connect, Calling, Phase
    <3>2. CASE FindUser
      <4>1. Target \in Directory
        BY <3>2 DEF FindUser, Calling, IInv, CallSound, Target, Directory
      <4>2. Seen(entry, Target, call.user, call.tenant) \in seen
        BY <3>2, <4>1 DEF FindUser, Calling, IInv, SeenSound
      <4>3. \E s \in seen : s.directory = Target /\ s.known
        BY <3>2, <4>2 DEF FindUser, Seen
      <4>4. call.proof # "none" => "bind_user" \in Phase
        BY DEF Phase
      <4>5. CASE call.proof = "none"
        BY <3>2, <4>3, <4>5 DEF FindUser, Calling, Phase
      <4>6. CASE call.proof # "none"
        BY <3>2, <4>3, <4>4, <4>6 DEF FindUser, Calling
      <4> QED
        BY <4>5, <4>6
    <3>3. CASE BindUser
      <4>1. call.proof \in {"none", "right"}
        BY <3>3 DEF BindUser, Calling, Binds, IInv, CallSound
      <4>2. \E s \in seen : s.directory = Target /\ s.known
        BY <3>3 DEF BindUser, Calling, IInv, SeenSound
      <4> QED
        BY <3>3, <4>1, <4>2 DEF BindUser, Calling, Phase
    <3> QED
      BY <1>2, <3>1, <3>2, <3>3
  <2> QED
    BY <2>1, AdvanceStep
<1>3. CASE NoSuchUser
  BY <1>3, ReplyStep DEF NoSuchUser, Calling
<1>4. CASE SearchRaises
  BY <1>4, ReplyStep DEF SearchRaises, Calling
<1>5. CASE BindRejected
  BY <1>5, ReplyStep DEF BindRejected, Calling
<1>6. CASE Unreachable
  BY <1>6, UnreachableStep
<1>7. CASE FindRoles
  BY <1>7, FindRolesStep
<1>8. CASE Environment
  BY <1>8, AvailabilityStep, EntryStep DEF Environment
<1>9. CASE UNCHANGED vars
  BY <1>9 DEF vars, IInv, TypeOK, PastSound, BreakerSound, Due, CallSound, PrimaryWasOut,
              SeenSound, Target, PasswordProven, UnreachableMeansBoth
<1> QED
  BY <1>1, <1>2, <1>3, <1>4, <1>5, <1>6, <1>7, <1>8, <1>9 DEF Next, Step

LEMMA Invariance == Spec => []IInv
BY Initially, Consecution, PTL DEF Spec

\* The state keeps its shape, for any users, tenants, groups and cooldown.
THEOREM TypeCorrect == Spec => []TypeOK
<1>1. IInv => TypeOK
  BY DEF IInv
<1> QED
  BY <1>1, Invariance, PTL

\* authenticate never vouches for a user who gave no password, or a wrong one.
THEOREM PasswordRequired == Spec => []PasswordProven
<1>1. IInv => PasswordProven
  BY DEF IInv
<1> QED
  BY <1>1, Invariance, PTL

\* "Unreachable" is never said on the breaker's word alone: both directories were
\* out, the primary at most a cooldown before the call.
THEOREM UnreachableTrue == Spec => []UnreachableMeansBoth
<1>1. IInv => UnreachableMeansBoth
  BY DEF IInv
<1> QED
  BY <1>1, Invariance, PTL

\* A step by which a call begins is a Resolve.
LEMMA CallBegins ==
  ASSUME Next, call = None, call' # None
  PROVE  \E u \in User, proof \in Proof : \E t \in TenantsFor(proof) : Resolve(u, t, proof)
<1>1. CASE Connect \/ Unreachable \/ FindUser \/ NoSuchUser \/ SearchRaises
           \/ BindUser \/ BindRejected \/ FindRoles
  BY <1>1 DEF Connect, Unreachable, FindUser, NoSuchUser, SearchRaises, BindUser,
              BindRejected, FindRoles, Calling
<1>2. CASE Environment
  BY <1>2 DEF Environment, Fails, Recovers, Edit, Replicate, Tick, resolver
<1>3. CASE \E u \in User, proof \in Proof : \E t \in TenantsFor(proof) :
             RefuseOffhand(u, t, proof)
  BY <1>3 DEF RefuseOffhand
<1> QED
  BY <1>1, <1>2, <1>3 DEF Next, Step

\* The breaker sends a call past the primary exactly in the cooldown after its last
\* failure, whatever happened to other calls in between.
THEOREM PrimaryProbed == Spec => PrimaryIffDue
<1> DEFINE A == call = None /\ call' # None /\ cfg.replica_enabled =>
                  (Head(call'.targets) = "primary" <=> clock >= lastFail + Cooldown)
<1>1. ASSUME IInv, [Next]_vars PROVE [A]_vars
  <2> SUFFICES ASSUME Next, call = None, call' # None, cfg.replica_enabled
               PROVE  Head(call'.targets) = "primary" <=> clock >= lastFail + Cooldown
    BY <1>1
  <2>1. call'.targets = LdapTargets
    BY CallBegins DEF Resolve
  <2>2. LdapTargets = IF ShouldTryPrimary THEN <<"primary", "replica">> ELSE <<"replica">>
    BY DEF LdapTargets
  <2>3. ShouldTryPrimary <=> clock >= lastFail + Cooldown
    <3>1. clock \in Int /\ downUntil \in Int /\ lastFail \in Int
      BY <1>1, BoundAssumption DEF IInv, TypeOK
    <3> QED
      BY <1>1, <3>1, CooldownAssumption DEF IInv, BreakerSound, Due, ShouldTryPrimary
  <2> QED
    BY <2>1, <2>2, <2>3
<1> QED
  BY <1>1, Invariance, PTL DEF Spec, PrimaryIffDue

\* An identity is of a user the directory that answered knew, with exactly the roles
\* it held for them at one moment of the call; none after a group search that failed,
\* and that only for a service principal.
THEOREM RolesSound == Spec => RolesHeldThere
<1> DEFINE A == answer' \notin {answer, None} /\ answer'.authenticated =>
                  LET there == {s \in seen : s.directory = Target}
                  IN /\ \E s \in there : s.known
                     /\ IF answer'.outcome = "search_failed"
                          THEN answer'.roles = {}
                          ELSE \E s \in there : answer'.roles = RolesFrom(s.groups)
                     /\ answer'.roles = {} => answer'.user \in cfg.principals
<1>1. ASSUME IInv, [Next]_vars PROVE [A]_vars
  <2> SUFFICES ASSUME Next, answer' \notin {answer, None}, answer'.authenticated
               PROVE  /\ \E s \in seen : s.directory = Target /\ s.known
                      /\ answer'.outcome = "search_failed" => answer'.roles = {}
                      /\ answer'.outcome # "search_failed" =>
                           \E s \in seen : /\ s.directory = Target
                                            /\ answer'.roles = RolesFrom(s.groups)
                      /\ answer'.roles = {} => answer'.user \in cfg.principals
    BY <1>1
  <2>1. CASE FindRoles
    <3>1. call # None /\ call.phase = "find_roles"
      BY <2>1 DEF FindRoles, Calling
    <3>2. \E s \in seen : s.directory = Target /\ s.known
      BY <1>1, <3>1 DEF IInv, SeenSound
    <3>3. PICK groups \in SUBSET Role, outcome \in {"resolved", "search_failed"} :
            /\ Admit(groups, outcome)
            /\ IF outcome = "search_failed" THEN groups = {} ELSE groups = GroupsFound
      <4>1. CASE Admit(GroupsFound, "resolved")
        BY <1>1, <3>1, <4>1, GroupsNoted
      <4>2. CASE Admit({}, "search_failed")
        BY <4>2
      <4> QED
        BY <2>1, <4>1, <4>2, Zenon DEF FindRoles
    <3>4. PICK roles \in SUBSET AllRoles, authenticated \in BOOLEAN :
            /\ Reply(roles, authenticated, outcome)
            /\ authenticated => /\ roles = RolesFrom(groups)
                                /\ roles = {} => call.user \in cfg.principals
      BY <3>3, AdmitReplies
    <3>5. /\ answer'.roles = roles /\ answer'.user = call.user
          /\ answer'.outcome = outcome /\ answer'.authenticated = authenticated
      BY <3>4 DEF Reply
    <3>6. \E s \in seen : s.directory = Target /\ s.groups = GroupsFound
      BY <1>1, <3>1, GroupsNoted
    <3> QED
      BY <3>2, <3>3, <3>4, <3>5, <3>6, RolesOK
  <2>2. CASE Connect \/ Unreachable \/ FindUser \/ NoSuchUser \/ SearchRaises
             \/ BindUser \/ BindRejected
    <3>1. answer' = answer \/ \E outcome : Reply({}, FALSE, outcome)
      BY <2>2 DEF Connect, Unreachable, FallOver, FindUser, NoSuchUser, SearchRaises,
                  BindUser, BindRejected
    <3> QED
      BY <3>1 DEF Reply
  <2>3. CASE \E u \in User, proof \in Proof : \E t \in TenantsFor(proof) :
               Resolve(u, t, proof) \/ RefuseOffhand(u, t, proof)
    BY <2>3 DEF Resolve, RefuseOffhand
  <2>4. CASE Environment
    BY <2>4 DEF Environment, Fails, Recovers, Edit, Replicate, Tick, resolver
  <2> QED
    BY <2>1, <2>2, <2>3, <2>4 DEF Next, Step
<1> QED
  BY <1>1, Invariance, PTL DEF Spec, RolesHeldThere
=============================================================================
