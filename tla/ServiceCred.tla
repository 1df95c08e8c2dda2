----------------------------- MODULE ServiceCred -----------------------------
(***************************************************************************)
(* service_cred_client.py: verification of a key:secret service credential *)
(* against ldap_manager, with a brief cache of the successes.              *)
(*                                                                         *)
(* A call reads the wall clock, looks in the cache under the lock, leaves  *)
(* the lock to ask ldap_manager over HTTP, and takes it again to store the *)
(* answer with an expiry counted from the clock it read FIRST.  Several    *)
(* callers may be between those steps at once (the class is built for      *)
(* threads), credentials are revoked and reinstated meanwhile, and the wall *)
(* clock may be stepped.                                                   *)
(*                                                                         *)
(* Operators named X_Remark are deviations of the X that follows them.     *)
(***************************************************************************)
EXTENDS Integers, FiniteSets

CONSTANTS
  Caller,     \* threads inside verify
  Cred,       \* key_id:secret pairs presented
  Blank,      \* those of them with an empty half
  Tenant,
  Uid,
  UidOf,      \* Cred -> Uid: whom ldap_manager issued the credential to
  Enabled,    \* LDAP_MANAGER_URL and SERVICE_CRED_INTERNAL_SECRET are both set
  TTL,        \* SERVICE_CRED_VERIFY_CACHE_TTL, any integer (0: no caching)
  None,       \* no uid, nothing cached, no call
  MaxTime,    \* bound: the wall clock and true time stay in 0..MaxTime
  MaxSetback  \* bound: seconds the wall clock is put back in all

\* (key_id, secret, tenant, scope); this door only ever uses the scope "mcp".
Key == Cred \X Tenant

\* Those that ldap_manager may have issued: it issues no empty halves.
Issuable == (Cred \ Blank) \X Tenant

Entry  == [uid : Uid \cup {None}, expiry : Int]
Phase  == {"clocked", "sent", "replied"}
Call   == [key : Key, now : Int, time : Int, phase : Phase, uid : Uid \cup {None},
           failed : BOOLEAN]
Result == [key : Key, uid : Uid \cup {None}, time : Int, failed : BOOLEAN]

ASSUME UidAssumption   == UidOf \in [Cred -> Uid] /\ Blank \subseteq Cred /\ Enabled \in BOOLEAN
ASSUME TTLAssumption   == TTL \in Int
ASSUME BoundAssumption == MaxTime \in Nat /\ MaxSetback \in Nat
ASSUME NoneAssumption  == None \notin Uid \cup Entry \cup Call \cup Result

VARIABLES
  cache,       \* _cache: (key_id, secret, tenant, scope) -> (uid, expiry)
  call,        \* call[c]: c's verify in progress
  result,      \* result[c]: what c's last verify returned, and when it began (history)
  valid,       \* the keys ldap_manager would accept (external)
  now,         \* time.time()
  elapsed,     \* true time since the process started (history)
  setback,     \* seconds by which the wall clock was put back so far (history)
  lastValid,   \* lastValid[k]: the last true time at which k was valid (history)
  lastInvalid  \* lastInvalid[k]: ... at which it was not (history)

verifier == <<cache, call, result>>
clock    == <<now, elapsed, setback>>
history  == <<lastValid, lastInvalid>>
vars     == <<cache, call, result, valid, now, elapsed, setback, lastValid, lastInvalid>>

\* "Not at any time since the process started": out of reach of every window.
Never == 0 - (MaxTime + MaxSetback + (IF TTL > 0 THEN TTL ELSE 0)) - 1

Init ==
  /\ cache  = [k \in Key |-> None]
  /\ call   = [c \in Caller |-> None]
  /\ result = [c \in Caller |-> None]
  /\ valid \in SUBSET Issuable
  /\ now = 0 /\ elapsed = 0 /\ setback = 0
  /\ lastValid   = [k \in Key |-> IF k \in valid THEN 0 ELSE Never]
  /\ lastInvalid = [k \in Key |-> IF k \in valid THEN Never ELSE 0]
-----------------------------------------------------------------------------
Return(c, k, uid, time, failed) ==
  /\ result' = [result EXCEPT ![c] = [key |-> k, uid |-> uid, time |-> time,
                                      failed |-> failed]]
  /\ call' = [call EXCEPT ![c] = None]

\* verify() without a verifier configured, or with half a credential.
RefuseOffhand(c, k) ==
  /\ call[c] = None
  /\ ~Enabled \/ k[1] \in Blank
  /\ Return(c, k, None, elapsed, FALSE)
  /\ UNCHANGED <<cache, valid, clock, history>>

\* verify() reads time.time() ...
Begin(c, k) ==
  /\ call[c] = None
  /\ Enabled /\ k[1] \notin Blank
  /\ call' = [call EXCEPT ![c] = [key |-> k, now |-> now, time |-> elapsed,
                                  phase |-> "clocked", uid |-> None, failed |-> FALSE]]
  /\ UNCHANGED <<cache, result, valid, clock, history>>

At(c, phase) == call[c] # None /\ call[c].phase = phase

Fresh_Inclusive(c) ==
  cache[call[c].key] # None /\ cache[call[c].key].expiry >= call[c].now

\* The entry found under this key has not expired.
Fresh(c) == cache[call[c].key] # None /\ cache[call[c].key].expiry > call[c].now

\* ... then, under the lock, finds a fresh entry and answers from it ...
Hit(c) ==
  /\ At(c, "clocked") /\ Fresh(c)
  /\ Return(c, call[c].key, cache[call[c].key].uid, call[c].time, FALSE)
  /\ UNCHANGED <<cache, valid, clock, history>>

\* ... or leaves the lock and sends the question.
Send(c) ==
  /\ At(c, "clocked") /\ ~Fresh(c)
  /\ call' = [call EXCEPT ![c].phase = "sent"]
  /\ UNCHANGED <<cache, result, valid, clock, history>>

\* ldap_manager judges the credential: 200 with its uid, or 401 (external).
ManagerReplies(c) ==
  /\ At(c, "sent")
  /\ LET k == call[c].key IN
       call' = [call EXCEPT ![c].phase = "replied",
                            ![c].uid = IF k \in valid THEN UidOf[k[1]] ELSE None]
  /\ UNCHANGED <<cache, result, valid, clock, history>>

\* Unreachable, timed out, not a 200, a body that is not JSON or has no uid; or an
\* exception verify does not catch: nothing is stored and nobody let in either way.
CallFails(c) ==
  /\ At(c, "sent")
  /\ call' = [call EXCEPT ![c].phase = "replied", ![c].failed = TRUE]
  /\ UNCHANGED <<cache, result, valid, clock, history>>

Expiry_FromReply(c) == now + TTL

\* A success is trusted for TTL from the clock read before asking ...
Expiry(c) == call[c].now + TTL

Denied_Remembered(c) ==
  /\ At(c, "replied") /\ call[c].uid = None
  /\ cache' = [cache EXCEPT ![call[c].key] = [uid |-> None, expiry |-> call[c].now + TTL]]
  /\ Return(c, call[c].key, None, call[c].time, call[c].failed)
  /\ UNCHANGED <<valid, clock, history>>

\* ... a refusal of any kind returns None and is not remembered ...
Denied(c) ==
  /\ At(c, "replied") /\ call[c].uid = None
  /\ Return(c, call[c].key, None, call[c].time, call[c].failed)
  /\ UNCHANGED <<cache, valid, clock, history>>

Verified_ExpiryFirst(c) ==
  /\ At(c, "replied") /\ call[c].uid # None
  /\ cache' = [cache EXCEPT ![call[c].key] = [uid |-> Expiry(c), expiry |-> call[c].uid]]
  /\ Return(c, call[c].key, call[c].uid, call[c].time, FALSE)
  /\ UNCHANGED <<valid, clock, history>>

\* ... and a success is stored under the whole key, whoever stored there before.
Verified(c) ==
  /\ At(c, "replied") /\ call[c].uid # None
  /\ cache' = [cache EXCEPT ![call[c].key] = [uid |-> call[c].uid, expiry |-> Expiry(c)]]
  /\ Return(c, call[c].key, call[c].uid, call[c].time, FALSE)
  /\ UNCHANGED <<valid, clock, history>>
-----------------------------------------------------------------------------
\* A credential is revoked, or reinstated (external).
Revokes(k) ==
  /\ k \in valid /\ valid' = valid \ {k}
  /\ lastInvalid' = [lastInvalid EXCEPT ![k] = elapsed]
  /\ UNCHANGED <<verifier, clock, lastValid>>

Reinstates(k) ==
  /\ k \in Issuable \ valid /\ valid' = valid \cup {k}
  /\ lastValid' = [lastValid EXCEPT ![k] = elapsed]
  /\ UNCHANGED <<verifier, clock, lastInvalid>>

Tick ==
  /\ now < MaxTime /\ elapsed < MaxTime
  /\ now' = now + 1 /\ elapsed' = elapsed + 1
  /\ lastValid'   = [k \in Key |-> IF k \in valid THEN elapsed' ELSE lastValid[k]]
  /\ lastInvalid' = [k \in Key |-> IF k \in valid THEN lastInvalid[k] ELSE elapsed']
  /\ UNCHANGED <<verifier, valid, setback>>

\* The wall clock is set, forwards or back.
SetClock(t) ==
  /\ now' = t
  /\ setback' = IF t < now THEN setback + (now - t) ELSE setback
  /\ setback' <= MaxSetback
  /\ UNCHANGED <<verifier, valid, elapsed, history>>

Step(c) ==
  \/ \E k \in Key : RefuseOffhand(c, k) \/ Begin(c, k)
  \/ Hit(c) \/ Send(c) \/ ManagerReplies(c) \/ CallFails(c) \/ Denied(c) \/ Verified(c)

Environment ==
  \/ \E k \in Key : Revokes(k) \/ Reinstates(k)
  \/ Tick
  \/ \E t \in 0..MaxTime : SetClock(t)

Next == (\E c \in Caller : Step(c)) \/ Environment

Spec == Init /\ [][Next]_vars
-----------------------------------------------------------------------------
TypeOK ==
  /\ cache  \in [Key -> Entry \cup {None}]
  /\ call   \in [Caller -> Call \cup {None}]
  /\ result \in [Caller -> Result \cup {None}]
  /\ valid \in SUBSET Issuable
  /\ now \in 0..MaxTime /\ elapsed \in 0..MaxTime /\ setback \in 0..MaxSetback
  /\ lastValid \in [Key -> Int] /\ lastInvalid \in [Key -> Int]

\* A uid is only returned for a credential of that uid which was valid in that
\* tenant at some moment of the call, or less than TTL of true time before it
\* began, not counting what the wall clock was put back: however the callers
\* interleave, and whatever was revoked while a question was on its way.
VerifiedWasValid ==
  \A c \in Caller : result[c] # None /\ result[c].uid # None =>
    LET k == result[c].key IN
      /\ result[c].uid = UidOf[k[1]]
      /\ \/ lastValid[k] >= result[c].time
         \/ result[c].time - lastValid[k] < TTL + setback

\* A refusal is never remembered: it is the offhand one, or the credential was
\* invalid at some moment of this very call, or the asking failed.
RefusalIsCurrent ==
  \A c \in Caller : result[c] # None /\ result[c].uid = None =>
    LET k == result[c].key IN
      \/ ~Enabled \/ k[1] \in Blank
      \/ result[c].failed \/ lastInvalid[k] >= result[c].time

-----------------------------------------------------------------------------
Verification == INSTANCE FreshAnswer WITH
  Client   <- Caller,
  Question <- Key,
  Window   <- TTL,
  answer   <- [c \in Caller |->
                 IF result[c] = None THEN None
                 ELSE [question |-> result[c].key, asked |-> result[c].time,
                       yes |-> result[c].uid # None]],
  clock    <- elapsed,
  lastTrue <- lastValid,
  slack    <- setback

\* The verifier, lock, cache and HTTP call included, is a check whose "yes" is at
\* most TTL old, plus what the wall clock was put back.
ImplementsFreshAnswer == Verification!Spec
=============================================================================
