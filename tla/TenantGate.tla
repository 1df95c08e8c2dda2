------------------------------ MODULE TenantGate ------------------------------
(***************************************************************************)
(* tenant_state.py: the check of a tenant's lifecycle state that every     *)
(* request passes after authentication, with its cache of verdicts.        *)
(*                                                                         *)
(* A lookup is a blocking RPC to the core, made on the event-loop thread:  *)
(* no second call of the gate starts while one waits, but the registry may *)
(* change and time passes while the question travels, and again while the  *)
(* answer does.  The clock is time.monotonic(), so it never goes back.     *)
(*                                                                         *)
(* Operators named X_Remark are deviations of the X that follows them.     *)
(***************************************************************************)
EXTENDS Integers

CONSTANTS
  Tenant,     \* tenant names
  NoTenant,   \* the empty tenant name
  RegState,   \* what the core's registry may report: state strings, "not_found"
  AdmitTTL,   \* ADMIT_TTL_S
  RefuseTTL,  \* REFUSE_TTL_S
  None,       \* nothing cached, no call in progress, no verdict yet
  MaxTime     \* bound: the clock stays in 0..MaxTime

KnownStates == {"requested", "awaiting_dns", "provisioning", "live", "suspended",
                "decommissioning", "decommissioned"}

\* What a lookup can come to: a state, found = false, or an exception.
Outcome == RegState \cup {"failed"}

ASSUME StateAssumption  == "live" \in RegState /\ RegState \cap {"failed", "waiting"} = {}
ASSUME TenantAssumption == NoTenant \notin Tenant
ASSUME TTLAssumption    == /\ AdmitTTL \in Int /\ AdmitTTL > 0
                           /\ RefuseTTL \in Int /\ RefuseTTL > 0
ASSUME BoundAssumption  == MaxTime \in Nat

Reason == {"none", "undetermined", "suspended", "provisioning", "not_yet",
           "decommissioning", "decommissioned", "unrecognised"}

CacheEntry == [until : Int, ok : BOOLEAN, reason : Reason]
Call       == [tenant : Tenant, now : Int, result : Outcome \cup {"waiting"}]
Verdict    == [tenant : Tenant \cup {NoTenant}, ok : BOOLEAN, reason : Reason,
               asked : Int, wired : BOOLEAN]

ASSUME NoneAssumption == None \notin CacheEntry \cup Call \cup Verdict

VARIABLES
  wired,     \* whether _source is set
  cache,     \* _cache: Tenant -> (until, verdict, reason)
  call,      \* the lookup in progress: admits() between its clock read and its return
  verdict,   \* the last answer of admits(), with the instant it was asked (history)
  registry,  \* what the core would report of each tenant (external)
  clock,     \* time.monotonic()
  last       \* last[t][o]: the last instant at which o was true of t (history)

gate == <<wired, cache, call, verdict>>
vars == <<wired, cache, call, verdict, registry, clock, last>>

\* An instant so long ago that no verdict may rest on it.
LongAgo == 0 - (AdmitTTL + RefuseTTL)

Init ==
  /\ wired = FALSE
  /\ cache = [t \in Tenant |-> None]
  /\ call = None /\ verdict = None
  /\ registry \in [Tenant -> RegState]
  /\ clock = 0
  /\ last = [t \in Tenant |-> [o \in Outcome |-> IF o = registry[t] THEN 0 ELSE LongAgo]]
-----------------------------------------------------------------------------
\* admits(state), and known(state) beside it in the gate: only "live".
AdmitsState(s) == s \in KnownStates /\ s = "live"

\* refusal_reason(state, lookup_succeeded) for the outcome of a lookup.
RefusalReason_Suspended(o) == IF o = "live" THEN "none" ELSE "suspended"
RefusalReason(o) ==
  CASE o \in {"not_found", "failed"}   -> "undetermined"
    [] o = "suspended"                     -> "suspended"
    [] o = "provisioning"                  -> "provisioning"
    [] o \in {"requested", "awaiting_dns"} -> "not_yet"
    [] o = "decommissioning"               -> "decommissioning"
    [] o = "decommissioned"                -> "decommissioned"
    [] o \notin KnownStates \cup {"not_found", "failed"} -> "unrecognised"
    [] OTHER                               -> "none"

Answer(t, ok, why, at) ==
  verdict' = [tenant |-> t, ok |-> ok, reason |-> why, asked |-> at, wired |-> wired]

\* admits(""): there is no tenant to ask about.
RefuseEmpty ==
  /\ call = None
  /\ Answer(NoTenant, FALSE, "undetermined", clock)
  /\ UNCHANGED <<wired, cache, call, registry, clock, last>>


\* A verdict in the cache answers while now < hit[0].
Trusted(t) == cache[t] # None /\ clock < cache[t].until

CacheHit_AnyTenant(t) ==
  /\ call = None
  /\ \E u \in Tenant : Trusted(u) /\ Answer(t, cache[u].ok, cache[u].reason, clock)
  /\ UNCHANGED <<wired, cache, call, registry, clock, last>>

\* admits(t), answered from the cache.
CacheHit(t) ==
  /\ call = None /\ Trusted(t)
  /\ Answer(t, cache[t].ok, cache[t].reason, clock)
  /\ UNCHANGED <<wired, cache, call, registry, clock, last>>

Unwired_Cached(t) ==
  /\ call = None /\ ~Trusted(t) /\ ~wired
  /\ Answer(t, FALSE, "undetermined", clock)
  /\ cache' = [cache EXCEPT ![t] = [until |-> clock + RefuseTTL, ok |-> FALSE,
                                    reason |-> "undetermined"]]
  /\ UNCHANGED <<wired, call, registry, clock, last>>

\* admits(t) with no source: refused, and not cached.
Unwired(t) ==
  /\ call = None /\ ~Trusted(t) /\ ~wired
  /\ Answer(t, FALSE, "undetermined", clock)
  /\ UNCHANGED <<wired, cache, call, registry, clock, last>>

\* admits(t) reads the clock, then asks the core ...
Ask(t) ==
  /\ call = None /\ ~Trusted(t) /\ wired
  /\ call' = [tenant |-> t, now |-> clock, result |-> "waiting"]
  /\ UNCHANGED <<wired, cache, verdict, registry, clock, last>>

\* ... which looks the tenant up (external) ...
CoreReplies ==
  /\ call # None /\ call.result = "waiting"
  /\ call' = [call EXCEPT !.result = registry[call.tenant]]
  /\ UNCHANGED <<wired, cache, verdict, registry, clock, last>>

\* ... or the call raises.
CoreFails ==
  /\ call # None /\ call.result = "waiting"
  /\ call' = [call EXCEPT !.result = "failed"]
  /\ last' = [last EXCEPT ![call.tenant]["failed"] = clock]
  /\ UNCHANGED <<wired, cache, verdict, registry, clock>>

Until_FromReply(ok)  == clock + (IF ok THEN AdmitTTL ELSE RefuseTTL)

\* How long the verdict is trusted, counted from BEFORE the question was sent.
Until(ok) == call.now + (IF ok THEN AdmitTTL ELSE RefuseTTL)

Conclude_NoExpiry ==
  /\ call # None /\ call.result # "waiting"
  /\ LET ok  == AdmitsState(call.result)
         why == IF ok THEN "none" ELSE RefusalReason(call.result)
     IN /\ cache' = [cache EXCEPT ![call.tenant] = [ok |-> ok, reason |-> why]]
        /\ Answer(call.tenant, ok, why, call.now)
  /\ call' = None
  /\ UNCHANGED <<wired, registry, clock, last>>

\* The answer arrives: judged, cached (a failure too), returned.
Conclude ==
  /\ call # None /\ call.result # "waiting"
  /\ LET ok  == AdmitsState(call.result)
         why == IF ok THEN "none" ELSE RefusalReason(call.result)
     IN /\ cache' = [cache EXCEPT ![call.tenant] =
                       [until |-> Until(ok), ok |-> ok, reason |-> why]]
        /\ Answer(call.tenant, ok, why, call.now)
  /\ call' = None
  /\ UNCHANGED <<wired, registry, clock, last>>

\* set_source, once at startup; until then the gate refuses everyone.
SetSource ==
  /\ ~wired /\ wired' = TRUE
  /\ UNCHANGED <<cache, call, verdict, registry, clock, last>>
-----------------------------------------------------------------------------
\* An operator moves a tenant through its lifecycle (external).
RegistryChanges(t, s) ==
  /\ registry[t] # s
  /\ registry' = [registry EXCEPT ![t] = s]
  /\ last' = [last EXCEPT ![t][s] = clock]
  /\ UNCHANGED <<gate, clock>>

Tick ==
  /\ clock < MaxTime
  /\ clock' = clock + 1
  /\ last' = [t \in Tenant |-> [last[t] EXCEPT ![registry[t]] = clock']]
  /\ UNCHANGED <<gate, registry>>

Environment == Tick \/ \E t \in Tenant, s \in RegState : RegistryChanges(t, s)

Next ==
  \/ RefuseEmpty
  \/ \E t \in Tenant : CacheHit(t) \/ Unwired(t) \/ Ask(t)
  \/ CoreReplies \/ CoreFails \/ Conclude
  \/ SetSource
  \/ Environment

Spec == Init /\ [][Next]_vars
-----------------------------------------------------------------------------
TypeOK ==
  /\ wired \in BOOLEAN
  /\ cache \in [Tenant -> CacheEntry \cup {None}]
  /\ call \in Call \cup {None}
  /\ verdict \in Verdict \cup {None}
  /\ registry \in [Tenant -> RegState]
  /\ clock \in 0..MaxTime
  /\ last \in [Tenant -> [Outcome -> Int]]

\* Somebody is let in only if the tenant was live less than AdmitTTL before the
\* question: however long the lookup took, whatever happened to the tenant
\* meanwhile, and however often the verdict has been reused since.
AdmitFresh ==
  verdict # None /\ verdict.ok =>
    verdict.tenant \in Tenant /\ last[verdict.tenant]["live"] > verdict.asked - AdmitTTL

\* Somebody is turned away only for a reason less than RefuseTTL old: the tenant
\* was in another state, or a lookup failed; or there was nothing to ask about,
\* or nobody to ask.  A tenant put back in service waits no longer than that,
\* and a gate that has been wired does not go on refusing for want of a source.
RefusalFresh ==
  verdict # None /\ ~verdict.ok =>
    \/ verdict.tenant = NoTenant \/ ~verdict.wired
    \/ \E o \in Outcome \ {"live"} : last[verdict.tenant][o] > verdict.asked - RefuseTTL

\* "Said honestly": the operator is told of a suspension only if there is one,
\* and that the status is undetermined only if the core could not say.
ReasonHonest ==
  verdict # None /\ verdict.tenant \in Tenant /\ verdict.wired =>
    LET recent(o) == o \in Outcome /\ last[verdict.tenant][o] > verdict.asked - RefuseTTL
    IN /\ verdict.reason = "suspended"    => recent("suspended")
       /\ verdict.reason = "undetermined" => recent("not_found") \/ recent("failed")
       /\ verdict.reason = "unrecognised" => \E o \in RegState \ KnownStates : recent(o)
       /\ verdict.reason = "none" <=> verdict.ok

-----------------------------------------------------------------------------
\* The one client is the event loop; nobody can be admitted to the empty tenant.
Admission == INSTANCE FreshAnswer WITH
  Client   <- {"loop"},
  Question <- Tenant \cup {NoTenant},
  Window   <- AdmitTTL,
  answer   <- [c \in {"loop"} |->
                 IF verdict = None THEN None
                 ELSE [question |-> verdict.tenant, asked |-> verdict.asked,
                       yes |-> verdict.ok]],
  lastTrue <- [t \in Tenant \cup {NoTenant} |->
                 IF t = NoTenant THEN LongAgo ELSE last[t]["live"]],
  slack    <- 0

\* The gate, cache and RPC included, is a check whose "yes" is at most AdmitTTL
\* old; it never changes an answer it gave, nor the truth.
ImplementsFreshAnswer == Admission!Spec
=============================================================================
