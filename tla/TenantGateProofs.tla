--------------------------- MODULE TenantGateProofs ---------------------------
(***************************************************************************)
(* The promises of the tenant gate, for any tenants, any registry and any  *)
(* lifetimes.  The invariant follows a state from the instant it was true  *)
(* to the verdict given on it: the answer travelling back (CallSound), the *)
(* cache (CacheSound), the verdict (VerdictSound).                         *)
(***************************************************************************)
EXTENDS TenantGate, TLAPS

\* `last` knows what is true now, and nothing of the future.
LastSound ==
  \A t \in Tenant : /\ last[t][registry[t]] = clock
                    /\ \A o \in Outcome : last[t][o] <= clock

\* The answer on its way was true after the question was asked.
CallSound ==
  call # None => /\ 0 <= call.now /\ call.now <= clock
                 /\ call.result # "waiting" => call.now <= last[call.tenant][call.result]

\* o explains the refusal `why` given at `at`, and is recent enough for it.
Explains(t, o, why, at) ==
  o # "live" /\ last[t][o] > at - RefuseTTL /\ why = RefusalReason(o)

\* What is cached rests on something true less than its lifetime ago.
CacheSound ==
  \A t \in Tenant : cache[t] # None =>
    IF cache[t].ok
      THEN cache[t].until <= last[t]["live"] + AdmitTTL /\ cache[t].reason = "none"
      ELSE \E o \in Outcome \ {"live"} : /\ cache[t].until <= last[t][o] + RefuseTTL
                                         /\ cache[t].reason = RefusalReason(o)

VerdictSound ==
  verdict # None =>
    IF verdict.ok
      THEN /\ verdict.tenant \in Tenant /\ verdict.reason = "none"
           /\ last[verdict.tenant]["live"] > verdict.asked - AdmitTTL
      ELSE \/ verdict.tenant = NoTenant \/ ~verdict.wired
           \/ \E o \in Outcome : Explains(verdict.tenant, o, verdict.reason, verdict.asked)

IInv == TypeOK /\ LastSound /\ CallSound /\ CacheSound /\ VerdictSound
-----------------------------------------------------------------------------
\* Every refusal has a reason, and the three that an operator acts on name what
\* the lookup really came to.
LEMMA ReasonNamesOutcome ==
  ASSUME NEW o \in Outcome, o # "live"
  PROVE  /\ RefusalReason(o) \in Reason \ {"none"}
         /\ RefusalReason(o) = "suspended" => o = "suspended"
         /\ RefusalReason(o) = "undetermined" => o \in {"not_found", "failed"}
         /\ RefusalReason(o) = "unrecognised" => o \in RegState \ KnownStates
BY StateAssumption DEF RefusalReason, Reason, Outcome, KnownStates

LEMMA OnlyLiveAdmits == \A s : AdmitsState(s) <=> s = "live"
BY DEF AdmitsState, KnownStates

\* What Answer records is a verdict.
LEMMA AnswerTyped ==
  ASSUME TypeOK, NEW t \in Tenant \cup {NoTenant}, NEW ok \in BOOLEAN,
         NEW why \in Reason, NEW at \in Int, Answer(t, ok, why, at)
  PROVE  verdict' \in Verdict
BY DEF Answer, TypeOK, Verdict

LEMMA ClockTyped == TypeOK => clock \in Int /\ clock >= 0
BY BoundAssumption DEF TypeOK

LEMMA InitIInv == Init => IInv
<1> SUFFICES ASSUME Init PROVE IInv
    OBVIOUS
<1> USE DEF Init
<1>1. LongAgo \in Int /\ LongAgo <= 0
      BY TTLAssumption DEF LongAgo
<1>2. last \in [Tenant -> [Outcome -> Int]] /\ LastSound
      BY <1>1 DEF LastSound, Outcome
<1>3. clock \in 0..MaxTime
  <2>1. 0 \in 0..MaxTime
        BY BoundAssumption
  <2>2. QED
        BY <2>1
<1>6. TypeOK
      BY <1>2, <1>3 DEF TypeOK
<1>4. CallSound /\ CacheSound /\ VerdictSound
      BY DEF CallSound, CacheSound, VerdictSound
<1>5. QED
      BY <1>2, <1>4, <1>6 DEF IInv

\* `last` only grows, so what rests on it goes on resting on it.
LEMMA CallKept ==
  ASSUME TypeOK, TypeOK', CallSound, UNCHANGED call, clock <= clock',
         \A t \in Tenant, o \in Outcome : last[t][o] <= last'[t][o]
  PROVE  CallSound'
<1> SUFFICES ASSUME call # None PROVE CallSound'
    BY DEF CallSound
<1>1. /\ call \in Call /\ call.tenant \in Tenant /\ call.now \in Int
      /\ call.result # "waiting" => call.result \in Outcome
      BY DEF TypeOK, Call
<1>2. QED
      BY <1>1, BoundAssumption DEF CallSound, TypeOK

LEMMA CacheKept ==
  ASSUME TypeOK, TypeOK', CacheSound, UNCHANGED cache,
         \A t \in Tenant, o \in Outcome : last[t][o] <= last'[t][o]
  PROVE  CacheSound'
<1> SUFFICES ASSUME NEW t \in Tenant, cache[t] # None
             PROVE IF cache[t].ok
               THEN cache[t].until <= last'[t]["live"] + AdmitTTL /\ cache[t].reason = "none"
               ELSE \E o \in Outcome \ {"live"} :
                      /\ cache[t].until <= last'[t][o] + RefuseTTL
                      /\ cache[t].reason = RefusalReason(o)
    BY DEF CacheSound
<1>1. cache[t].until \in Int
      BY DEF TypeOK, CacheEntry
<1>2. "live" \in Outcome
      BY StateAssumption DEF Outcome
<1>3. \A o \in Outcome : last[t][o] \in Int /\ last'[t][o] \in Int
      BY DEF TypeOK
<1>4. CASE cache[t].ok
      BY <1>1, <1>2, <1>3, <1>4, TTLAssumption DEF CacheSound
<1>5. CASE ~cache[t].ok
  <2>1. PICK o \in Outcome \ {"live"} : /\ cache[t].until <= last[t][o] + RefuseTTL
                                        /\ cache[t].reason = RefusalReason(o)
        BY <1>5 DEF CacheSound
  <2>2. cache[t].until <= last'[t][o] + RefuseTTL
        BY <1>1, <1>3, <2>1, TTLAssumption
  <2>3. QED
        BY <1>5, <2>1, <2>2
<1>6. QED
      BY <1>4, <1>5

LEMMA VerdictKept ==
  ASSUME TypeOK, TypeOK', VerdictSound, UNCHANGED verdict,
         \A t \in Tenant, o \in Outcome : last[t][o] <= last'[t][o]
  PROVE  VerdictSound'
<1> SUFFICES ASSUME verdict # None PROVE VerdictSound'
    BY DEF VerdictSound
<1>1. verdict \in Verdict /\ verdict.asked \in Int
      BY DEF TypeOK, Verdict
<1>2. "live" \in Outcome
      BY StateAssumption DEF Outcome
<1>3. CASE verdict.ok
  <2>1. /\ verdict.tenant \in Tenant /\ verdict.reason = "none"
        /\ last[verdict.tenant]["live"] > verdict.asked - AdmitTTL
        BY <1>3 DEF VerdictSound
  <2>2. /\ last[verdict.tenant]["live"] \in Int /\ last'[verdict.tenant]["live"] \in Int
        /\ last[verdict.tenant]["live"] <= last'[verdict.tenant]["live"]
        BY <1>2, <2>1 DEF TypeOK
  <2>3. last'[verdict.tenant]["live"] > verdict.asked - AdmitTTL
        BY <1>1, <2>1, <2>2, TTLAssumption
  <2>4. QED
        BY <1>3, <2>1, <2>3 DEF VerdictSound
<1>4. CASE ~verdict.ok
  <2> SUFFICES ASSUME verdict.tenant # NoTenant, verdict.wired
               PROVE  \E o \in Outcome : Explains(verdict.tenant, o, verdict.reason, verdict.asked)'
      BY <1>4 DEF VerdictSound
  <2>1. PICK o \in Outcome : Explains(verdict.tenant, o, verdict.reason, verdict.asked)
      BY <1>4 DEF VerdictSound
  <2>2. verdict.tenant \in Tenant
      BY <1>1 DEF Verdict
  <2>3. Explains(verdict.tenant, o, verdict.reason, verdict.asked)'
      BY <1>1, <2>1, <2>2, TTLAssumption DEF Explains, TypeOK
  <2>4. QED
      BY <2>3
<1>5. QED
      BY <1>3, <1>4

LEMMA StepIInv == IInv /\ [Next]_vars => IInv'
<1> SUFFICES ASSUME IInv, [Next]_vars PROVE IInv'
    OBVIOUS
<1> USE NoneAssumption, TTLAssumption, BoundAssumption, TenantAssumption, StateAssumption
<1> USE DEF IInv
<1>1. CASE RefuseEmpty
  <2> USE <1>1 DEF RefuseEmpty
  <2>0. verdict' \in Verdict
        BY AnswerTyped, ClockTyped DEF Reason
  <2>1. TypeOK'
        BY <2>0 DEF TypeOK
  <2>2. LastSound' /\ CallSound' /\ CacheSound'
        BY DEF LastSound, CallSound, CacheSound
  <2>3. VerdictSound'
        BY DEF VerdictSound, Answer
  <2>4. QED
        BY <2>1, <2>2, <2>3
<1>2. ASSUME NEW t \in Tenant, CacheHit(t) PROVE IInv'
  <2> USE <1>2 DEF CacheHit, Trusted
  <2>1. /\ cache[t] \in CacheEntry /\ cache[t].until \in Int /\ cache[t].ok \in BOOLEAN
        /\ cache[t].reason \in Reason /\ clock \in Int /\ clock < cache[t].until
        BY ClockTyped DEF TypeOK, CacheEntry
  <2>0. verdict' \in Verdict
        BY <2>1, AnswerTyped
  <2>2. TypeOK'
        BY <2>0 DEF TypeOK
  <2>6. verdict' = [tenant |-> t, ok |-> cache[t].ok, reason |-> cache[t].reason,
                    asked |-> clock, wired |-> wired]
        BY DEF Answer
  <2>3. LastSound' /\ CallSound' /\ CacheSound'
        BY DEF LastSound, CallSound, CacheSound
  <2>4. VerdictSound'
    <3>1. CASE cache[t].ok
      <4>1. last[t]["live"] \in Int
            BY StateAssumption DEF TypeOK, Outcome
      <4>2. cache[t].until <= last[t]["live"] + AdmitTTL /\ cache[t].reason = "none"
            BY <3>1 DEF CacheSound
      <4>3. last[t]["live"] > clock - AdmitTTL
            BY <2>1, <4>1, <4>2
      <4>4. QED
            BY <2>6, <3>1, <4>2, <4>3 DEF VerdictSound
    <3>2. CASE ~cache[t].ok
      <4>1. PICK o \in Outcome \ {"live"} : /\ cache[t].until <= last[t][o] + RefuseTTL
                                            /\ cache[t].reason = RefusalReason(o)
            BY <3>2 DEF CacheSound
      <4>2. last[t][o] \in Int
            BY DEF TypeOK
      <4>3. Explains(t, o, cache[t].reason, clock)
            BY <4>1, <4>2, <2>1 DEF Explains
      <4>4. QED
            BY <2>6, <3>2, <4>3 DEF VerdictSound, Explains
    <3>3. QED
          BY <3>1, <3>2
  <2>5. QED
        BY <2>2, <2>3, <2>4
<1>3. ASSUME NEW t \in Tenant, Unwired(t) PROVE IInv'
  <2> USE <1>3 DEF Unwired
  <2>0. verdict' \in Verdict
        BY AnswerTyped, ClockTyped DEF Reason
  <2>1. TypeOK'
        BY <2>0 DEF TypeOK
  <2>2. LastSound' /\ CallSound' /\ CacheSound'
        BY DEF LastSound, CallSound, CacheSound
  <2>3. VerdictSound'
        BY DEF VerdictSound, Answer
  <2>4. QED
        BY <2>1, <2>2, <2>3
<1>4. ASSUME NEW t \in Tenant, Ask(t) PROVE IInv'
  <2> USE <1>4 DEF Ask
  <2>1. call' \in Call /\ 0 <= call'.now /\ call'.now <= clock'
        BY ClockTyped DEF Call
  <2>2. TypeOK'
        BY <2>1 DEF TypeOK
  <2>3. LastSound' /\ CallSound'
        BY <2>1 DEF LastSound, CallSound
  <2>4. CacheSound' /\ VerdictSound'
        BY DEF CacheSound, VerdictSound, Explains
  <2>5. QED
        BY <2>2, <2>3, <2>4
<1>5. CASE CoreReplies
      BY <1>5 DEF CoreReplies, TypeOK, Call, Outcome, LastSound, CallSound, CacheSound,
                  VerdictSound, Explains
<1>6. CASE CoreFails
  <2> USE <1>6 DEF CoreFails
  <2>0. call \in Call /\ call.tenant \in Tenant
        BY DEF TypeOK, Call
  <2>1. TypeOK'
    <3>1. call' \in Call
          BY <2>0 DEF Call, Outcome
    <3>2. last' \in [Tenant -> [Outcome -> Int]]
          BY <2>0, ClockTyped DEF TypeOK, Outcome
    <3>3. QED
          BY <3>1, <3>2 DEF TypeOK
  <2>2. LastSound'
        BY <2>0 DEF LastSound, TypeOK, Outcome
  <2>3. \A t \in Tenant, o \in Outcome : last[t][o] <= last'[t][o]
        BY <2>0 DEF LastSound, TypeOK, Outcome
  <2>4. CallSound'
        BY <2>0 DEF CallSound, TypeOK, Call, Outcome
  <2>5. CacheSound' /\ VerdictSound'
        BY <2>1, <2>3, CacheKept, VerdictKept
  <2>6. QED
        BY <2>1, <2>2, <2>4, <2>5
<1>7. CASE Conclude
  <2> USE <1>7 DEF Conclude, Answer
  <2> DEFINE t   == call.tenant
             o   == call.result
             ok  == AdmitsState(o)
             why == IF ok THEN "none" ELSE RefusalReason(o)
  <2>0. /\ call \in Call /\ t \in Tenant /\ o \in Outcome
        /\ call.now \in Int /\ last[t][o] \in Int /\ call.now <= last[t][o]
        BY DEF TypeOK, Call, CallSound, Outcome
  <2>1. /\ ok <=> o = "live"
        /\ why \in Reason /\ (ok => why = "none") /\ (~ok => why = RefusalReason(o))
    <3>1. ok <=> o = "live"
          BY OnlyLiveAdmits
    <3>2. CASE ok
          BY <3>1, <3>2 DEF Reason
    <3>3. CASE ~ok
          BY <2>0, <3>1, <3>3, ReasonNamesOutcome
    <3>4. QED
          BY <3>1, <3>2, <3>3
  <2>2. ok \in BOOLEAN
        BY DEF AdmitsState
  <2>3. Until(ok) \in Int /\ Until(ok) = call.now + (IF ok THEN AdmitTTL ELSE RefuseTTL)
        BY <2>0 DEF Until
  <2>4. /\ cache' = [cache EXCEPT ![t] = [until |-> Until(ok), ok |-> ok, reason |-> why]]
        /\ verdict' = [tenant |-> t, ok |-> ok, reason |-> why, asked |-> call.now,
                       wired |-> wired]
        /\ call' = None /\ UNCHANGED <<wired, registry, clock, last>>
        OBVIOUS
  <2> HIDE <1>7 DEF t, o, ok, why, Conclude, Answer
  <2>5. TypeOK'
        BY <2>0, <2>1, <2>2, <2>3, <2>4 DEF TypeOK, CacheEntry, Verdict
  <2>6. LastSound' /\ CallSound'
        BY <2>4 DEF LastSound, CallSound
  <2>7. CacheSound'
        BY <2>0, <2>1, <2>3, <2>4 DEF CacheSound, TypeOK
  <2>8. VerdictSound'
    <3>1. CASE ok
          BY <2>0, <2>1, <2>4, <3>1 DEF VerdictSound
    <3>2. CASE ~ok
      <4>1. Explains(t, o, why, call.now)
            BY <2>0, <2>1, <3>2 DEF Explains
      <4>2. QED
            BY <2>0, <2>4, <3>2, <4>1 DEF VerdictSound, Explains
    <3>3. QED
          BY <3>1, <3>2
  <2>9. QED
        BY <2>5, <2>6, <2>7, <2>8
<1>8. CASE SetSource
      BY <1>8 DEF SetSource, TypeOK, LastSound, CallSound, CacheSound, VerdictSound, Explains
<1>9. ASSUME NEW t \in Tenant, NEW s \in RegState, RegistryChanges(t, s) PROVE IInv'
  <2> USE <1>9 DEF RegistryChanges, gate
  <2>0. registry' \in [Tenant -> RegState] /\ last' \in [Tenant -> [Outcome -> Int]]
        BY ClockTyped DEF TypeOK, Outcome
  <2>1. TypeOK'
        BY <2>0 DEF TypeOK
  <2>2. LastSound' /\ \A u \in Tenant, o \in Outcome : last[u][o] <= last'[u][o]
        BY DEF LastSound, TypeOK, Outcome
  <2>3. CallSound' /\ CacheSound' /\ VerdictSound'
    <3>1. clock <= clock'
          BY ClockTyped
    <3>2. QED
          BY <2>1, <2>2, <3>1, CallKept, CacheKept, VerdictKept
  <2>4. QED
        BY <2>1, <2>2, <2>3
<1>10. CASE Tick
  <2> USE <1>10 DEF Tick, gate
  <2>1. TypeOK'
        BY DEF TypeOK, Outcome
  <2>2. LastSound' /\ \A u \in Tenant, o \in Outcome : last[u][o] <= last'[u][o]
        BY DEF LastSound, TypeOK, Outcome
  <2>3. clock <= clock'
        BY DEF TypeOK
  <2>4. CallSound' /\ CacheSound' /\ VerdictSound'
        BY <2>1, <2>2, <2>3, CallKept, CacheKept, VerdictKept
  <2>5. QED
        BY <2>1, <2>2, <2>4
<1>11. CASE UNCHANGED vars
      BY <1>11 DEF vars, TypeOK, LastSound, CallSound, CacheSound, VerdictSound, Explains
<1>12. QED
      BY <1>1, <1>2, <1>3, <1>4, <1>5, <1>6, <1>7, <1>8, <1>9, <1>10, <1>11
      DEF Next, Environment
-----------------------------------------------------------------------------
LEMMA SpecIInv == Spec => []IInv
BY InitIInv, StepIInv, PTL DEF Spec

\* Cache entries, lookups and verdicts keep their shape.
THEOREM TypeCorrect == Spec => []TypeOK
BY SpecIInv, PTL DEF IInv

\* Nobody is admitted to a tenant that was not live less than AdmitTTL before the
\* question, whatever the lookup took and however often the verdict was reused.
THEOREM AdmitsFresh == Spec => []AdmitFresh
<1>1. IInv => AdmitFresh
      BY DEF IInv, VerdictSound, AdmitFresh
<1>2. QED
      BY <1>1, SpecIInv, PTL

\* Nobody asking about a tenant is refused, once the gate is wired, for a reason
\* RefuseTTL old or older.
THEOREM RefusesFresh == Spec => []RefusalFresh
<1>1. IInv => RefusalFresh
      BY DEF IInv, VerdictSound, RefusalFresh, Explains
<1>2. QED
      BY <1>1, SpecIInv, PTL

\* The reason logged names what a recent lookup really came to: in particular a
\* failed lookup never claims a suspension.
THEOREM ReasonsHonest == Spec => []ReasonHonest
<1>1. IInv => ReasonHonest
  <2> SUFFICES ASSUME IInv, verdict # None, verdict.tenant \in Tenant, verdict.wired
               PROVE ReasonHonest
      BY DEF ReasonHonest
  <2>1. CASE verdict.ok
        BY <2>1 DEF IInv, VerdictSound, ReasonHonest
  <2>2. CASE ~verdict.ok
    <3>1. PICK o \in Outcome : Explains(verdict.tenant, o, verdict.reason, verdict.asked)
          BY <2>2, TenantAssumption DEF IInv, VerdictSound
    <3>2. /\ o # "live" /\ verdict.reason = RefusalReason(o)
          /\ last[verdict.tenant][o] > verdict.asked - RefuseTTL
          BY <3>1 DEF Explains
    <3>3. /\ verdict.reason # "none"
          /\ verdict.reason = "suspended" => o = "suspended"
          /\ verdict.reason = "undetermined" => o \in {"not_found", "failed"}
          /\ verdict.reason = "unrecognised" => o \in RegState \ KnownStates
          BY <3>2, ReasonNamesOutcome
    <3>4. QED
          BY <2>2, <3>2, <3>3 DEF ReasonHonest
  <2>3. QED
        BY <2>1, <2>2
<1>2. QED
      BY <1>1, SpecIInv, PTL
-----------------------------------------------------------------------------
\* A verdict is an answer: in the one step that can be a "yes", AdmitFresh is what
\* FreshAnswer asks for.
LEMMA AnswerAnswers ==
  ASSUME IInv, IInv', NEW t \in Tenant \cup {NoTenant}, NEW ok \in BOOLEAN,
         NEW why \in Reason, NEW at \in 0..clock, Answer(t, ok, why, at),
         UNCHANGED <<clock, last>>
  PROVE  Admission!Next
<1> DEFINE told   == [question |-> t, asked |-> at, yes |-> ok]
           before == [c \in {"loop"} |->
                        IF verdict = None THEN None
                        ELSE [question |-> verdict.tenant, asked |-> verdict.asked,
                              yes |-> verdict.ok]]
           after  == [c \in {"loop"} |->
                        IF verdict' = None THEN None
                        ELSE [question |-> verdict'.tenant, asked |-> verdict'.asked,
                              yes |-> verdict'.ok]]
<1>1. /\ verdict' = [tenant |-> t, ok |-> ok, reason |-> why, asked |-> at, wired |-> wired]
      /\ verdict' \in Verdict /\ verdict' # None /\ at \in Int
      BY AnswerTyped, ClockTyped, NoneAssumption DEF IInv, Answer
<1>2. after = [before EXCEPT !["loop"] = told]
      BY <1>1
<1>3. ok => Admission!MayBeYes(t, at)
  <2> SUFFICES ASSUME ok PROVE Admission!MayBeYes(t, at)
      OBVIOUS
  <2>1. t \in Tenant /\ last[t]["live"] > at - AdmitTTL
        BY <1>1 DEF IInv, VerdictSound
  <2>2. last[t]["live"] \in Int /\ t # NoTenant
        BY <2>1, StateAssumption, TenantAssumption DEF IInv, TypeOK, Outcome
  <2>3. QED
        BY <1>1, <2>1, <2>2, TTLAssumption DEF Admission!MayBeYes
<1>4. Admission!Answer("loop", t, at, ok)
      BY <1>2, <1>3 DEF Admission!Answer
<1>5. QED
      BY <1>4 DEF Admission!Next

LEMMA StepRefines == IInv /\ IInv' /\ [Next]_vars => [Admission!Next]_(Admission!vars)
<1> SUFFICES ASSUME IInv, IInv', [Next]_vars
             PROVE  Admission!Next \/ UNCHANGED Admission!vars
    OBVIOUS
<1>0. /\ TypeOK /\ TypeOK' /\ clock \in Int /\ clock >= 0 /\ clock \in 0..clock
      BY ClockTyped DEF IInv
<1>1. CASE RefuseEmpty
      BY <1>0, <1>1, AnswerAnswers DEF RefuseEmpty, Reason
<1>2. ASSUME NEW t \in Tenant, CacheHit(t) PROVE Admission!Next
  <2>1. cache[t].ok \in BOOLEAN /\ cache[t].reason \in Reason
        BY <1>0, <1>2 DEF CacheHit, Trusted, TypeOK, CacheEntry
  <2>2. QED
        BY <1>0, <1>2, <2>1, AnswerAnswers DEF CacheHit
<1>3. ASSUME NEW t \in Tenant, Unwired(t) PROVE Admission!Next
      BY <1>0, <1>3, AnswerAnswers DEF Unwired, Reason
<1>4. CASE Conclude
  <2> DEFINE ok  == AdmitsState(call.result)
             why == IF ok THEN "none" ELSE RefusalReason(call.result)
  <2>1. /\ call.tenant \in Tenant /\ call.result \in Outcome /\ call.now \in 0..clock
        BY <1>0, <1>4 DEF Conclude, IInv, TypeOK, Call, CallSound
  <2>2. ok \in BOOLEAN /\ why \in Reason
    <3>1. CASE call.result = "live"
          BY <3>1, OnlyLiveAdmits DEF AdmitsState, Reason
    <3>2. CASE call.result # "live"
          BY <2>1, <3>2, OnlyLiveAdmits, ReasonNamesOutcome DEF AdmitsState
    <3>3. QED
          BY <3>1, <3>2
  <2>3. Answer(call.tenant, ok, why, call.now) /\ UNCHANGED <<clock, last>>
        BY <1>4 DEF Conclude
  <2> HIDE DEF ok, why
  <2>4. QED
        BY <2>1, <2>2, <2>3, AnswerAnswers
<1>5. ASSUME (\E t \in Tenant : Ask(t)) \/ CoreReplies \/ SetSource \/ UNCHANGED vars
      PROVE  UNCHANGED Admission!vars
      BY <1>5 DEF Ask, CoreReplies, SetSource, vars, Admission!vars
<1>6. CASE CoreFails
  <2>1. call.tenant \in Tenant /\ "live" # "failed"
        BY <1>0, <1>6 DEF CoreFails, TypeOK, Call
  <2>2. \A t \in Tenant : last'[t]["live"] = last[t]["live"]
        BY <1>0, <1>6, <2>1, StateAssumption DEF CoreFails, TypeOK, Outcome
  <2>3. UNCHANGED Admission!vars
        BY <1>6, <2>2 DEF CoreFails, Admission!vars
  <2>4. QED
        BY <2>3
<1>7. ASSUME NEW t \in Tenant, NEW s \in RegState, RegistryChanges(t, s)
      PROVE  Admission!Next
  <2>1. \A u \in Tenant : last'[u]["live"] \in {last[u]["live"], clock'}
        BY <1>0, <1>7, StateAssumption DEF RegistryChanges, TypeOK, Outcome
  <2>2. QED
        BY <1>0, <1>7, <2>1 DEF RegistryChanges, gate, Admission!Next, Admission!Move
<1>8. CASE Tick
  <2>1. \A u \in Tenant : last'[u]["live"] \in {last[u]["live"], clock'}
        BY <1>0, <1>8, StateAssumption DEF Tick, TypeOK, Outcome
  <2>2. QED
        BY <1>0, <1>8, <2>1 DEF Tick, gate, Admission!Next, Admission!Move
<1>9. QED
      BY <1>1, <1>2, <1>3, <1>4, <1>5, <1>6, <1>7, <1>8 DEF Next, Environment

LEMMA InitRefines == Init => Admission!Init
<1> SUFFICES ASSUME Init PROVE Admission!Init
    OBVIOUS
<1>1. \A t \in Tenant : last[t]["live"] \in Int
      BY InitIInv, StateAssumption DEF IInv, TypeOK, Outcome
<1>2. LongAgo \in Int
      BY TTLAssumption DEF LongAgo
<1>3. QED
      BY <1>1, <1>2 DEF Init, Admission!Init

\* The gate, its cache and its RPC included, does nothing that a check whose "yes"
\* is less than AdmitTTL old could not do.
THEOREM Implements == Spec => ImplementsFreshAnswer
<1>1. Spec => [][Admission!Next]_(Admission!vars)
      BY SpecIInv, StepRefines, PTL DEF Spec
<1>2. QED
      BY <1>1, InitRefines, PTL DEF Spec, ImplementsFreshAnswer, Admission!Spec
=============================================================================
