-------------------------- MODULE ServiceCredProofs --------------------------
(***************************************************************************)
(* The promises of the credential verifier, for any number of callers, any *)
(* credentials, any TTL and any behaviour of the wall clock.               *)
(*                                                                         *)
(* The argument is about Drift, how far the wall clock and what it was put *)
(* back run ahead of true time: it never shrinks.  So a clock reading minus *)
(* the moment it was taken bounds every later such difference from below,  *)
(* and a reading compared with an expiry says how old the entry is, though *)
(* the two readings may be of different callers and in either order.       *)
(***************************************************************************)
EXTENDS ServiceCred, TLAPS

Drift == now + setback - elapsed

\* The history knows what is so now, and nothing of the future.
LastSound ==
  \A k \in Key : /\ lastValid[k] <= elapsed /\ lastInvalid[k] <= elapsed
                 /\ IF k \in valid THEN lastValid[k] = elapsed ELSE lastInvalid[k] = elapsed

\* What a call carries was so after the call began.
CallSound ==
  \A c \in Caller : call[c] # None =>
    /\ 0 <= call[c].time /\ call[c].time <= elapsed
    /\ call[c].now - call[c].time <= Drift
    /\ call[c].phase # "replied" => call[c].uid = None
    /\ call[c].uid # None => /\ call[c].uid = UidOf[call[c].key[1]]
                             /\ lastValid[call[c].key] >= call[c].time
    /\ call[c].phase = "replied" /\ call[c].uid = None /\ ~call[c].failed =>
         lastInvalid[call[c].key] >= call[c].time

\* Of two calls, the one that began earlier read the earlier clock, but for what
\* the clock was put back between them.
PairSound ==
  \A c, d \in Caller : call[c] # None /\ call[d] # None =>
    \/ call[c].time >= call[d].time
    \/ call[c].now - call[c].time <= call[d].now - call[d].time + setback

\* An entry is of the credential's own uid, and expires in time.
EntrySound ==
  \A k \in Key : cache[k] # None =>
    /\ cache[k].uid = UidOf[k[1]]
    /\ cache[k].expiry - TTL - lastValid[k] <= Drift

\* An entry that a call in progress takes for fresh is young enough for it.
EntryCallSound ==
  \A c \in Caller : call[c] # None /\ cache[call[c].key] # None =>
    \/ lastValid[call[c].key] >= call[c].time
    \/ cache[call[c].key].expiry - TTL - lastValid[call[c].key]
         <= call[c].now - call[c].time + setback

ResultSound == VerifiedWasValid /\ RefusalIsCurrent

IInv == /\ TypeOK /\ LastSound /\ CallSound /\ PairSound
        /\ EntrySound /\ EntryCallSound /\ ResultSound
-----------------------------------------------------------------------------
LEMMA KeyTyped == \A k \in Key : k[1] \in Cred /\ UidOf[k[1]] \in Uid /\ UidOf[k[1]] # None
BY UidAssumption, NoneAssumption DEF Key

LEMMA CallTyped ==
  ASSUME TypeOK, NEW c \in Caller, call[c] # None
  PROVE  /\ call[c] \in Call /\ call[c].key \in Key
         /\ call[c].now \in Int /\ call[c].time \in Int
         /\ call[c].phase \in Phase /\ call[c].uid \in Uid \cup {None}
         /\ call[c].failed \in BOOLEAN
         /\ lastValid[call[c].key] \in Int /\ lastInvalid[call[c].key] \in Int
BY DEF TypeOK, Call

LEMMA EntryTyped ==
  ASSUME TypeOK, NEW k \in Key
  PROVE  /\ lastValid[k] \in Int /\ lastInvalid[k] \in Int
         /\ cache[k] # None => /\ cache[k] \in Entry /\ cache[k].expiry \in Int
                               /\ cache[k].uid \in Uid \cup {None}
BY DEF TypeOK, Entry

LEMMA ResultTyped ==
  ASSUME TypeOK, NEW c \in Caller, result[c] # None
  PROVE  /\ result[c] \in Result /\ result[c].key \in Key /\ result[c].time \in Int
         /\ lastValid[result[c].key] \in Int /\ lastInvalid[result[c].key] \in Int
BY DEF TypeOK, Result

LEMMA ClockTyped ==
  TypeOK => /\ now \in Int /\ elapsed \in Int /\ setback \in Int
            /\ now >= 0 /\ elapsed >= 0 /\ setback >= 0 /\ Drift \in Int
BY BoundAssumption DEF TypeOK, Drift

LEMMA InitIInv == Init => IInv
<1> SUFFICES ASSUME Init PROVE IInv
    OBVIOUS
<1> USE DEF Init
<1>1. Never \in Int /\ Never <= 0
  <2>1. (IF TTL > 0 THEN TTL ELSE 0) \in Int /\ (IF TTL > 0 THEN TTL ELSE 0) >= 0
        BY TTLAssumption
  <2>2. MaxTime \in Int /\ MaxSetback \in Int /\ MaxTime >= 0 /\ MaxSetback >= 0
        BY BoundAssumption
  <2>3. QED
        BY <2>1, <2>2 DEF Never
<1>2. now \in 0..MaxTime /\ elapsed \in 0..MaxTime /\ setback \in 0..MaxSetback
      BY BoundAssumption
<1>3. lastValid \in [Key -> Int] /\ lastInvalid \in [Key -> Int]
      BY <1>1
<1>4. TypeOK
      BY <1>2, <1>3 DEF TypeOK
<1>5. LastSound
      BY <1>1 DEF LastSound
<1>6. CallSound /\ PairSound /\ EntrySound /\ EntryCallSound /\ ResultSound
  <2>1. \A c \in Caller : call[c] = None /\ result[c] = None
        OBVIOUS
  <2>2. \A k \in Key : cache[k] = None
        OBVIOUS
  <2>3. QED
        BY <2>1, <2>2 DEF CallSound, PairSound, EntrySound, EntryCallSound, ResultSound,
                         VerifiedWasValid, RefusalIsCurrent
<1>7. QED
      BY <1>4, <1>5, <1>6 DEF IInv

\* What happens outside the verifier only ever helps: the histories and the drift
\* grow.
LEMMA EnvironmentKeeps ==
  ASSUME IInv, TypeOK', LastSound', UNCHANGED verifier,
         \A k \in Key : lastValid[k] <= lastValid'[k] /\ lastInvalid[k] <= lastInvalid'[k],
         elapsed <= elapsed', setback <= setback', Drift <= Drift'
  PROVE  IInv'
<1> USE DEF IInv, verifier
<1>1. /\ now \in Int /\ elapsed \in Int /\ setback \in Int /\ Drift \in Int
      /\ now' \in Int /\ elapsed' \in Int /\ setback' \in Int /\ Drift' \in Int
      BY BoundAssumption DEF TypeOK, Drift
<1>2. CallSound'
  <2> SUFFICES ASSUME NEW c \in Caller, call[c] # None
      PROVE /\ 0 <= call[c].time /\ call[c].time <= elapsed'
            /\ call[c].now - call[c].time <= Drift'
            /\ call[c].phase # "replied" => call[c].uid = None
            /\ call[c].uid # None => /\ call[c].uid = UidOf[call[c].key[1]]
                                     /\ lastValid'[call[c].key] >= call[c].time
            /\ call[c].phase = "replied" /\ call[c].uid = None /\ ~call[c].failed =>
                 lastInvalid'[call[c].key] >= call[c].time
      BY DEF CallSound
  <2>1. /\ call[c].key \in Key /\ call[c].now \in Int /\ call[c].time \in Int
        /\ lastValid[call[c].key] \in Int /\ lastInvalid[call[c].key] \in Int
        BY CallTyped
  <2>2. lastValid'[call[c].key] \in Int /\ lastInvalid'[call[c].key] \in Int
        BY <2>1 DEF TypeOK
  <2>3. QED
        BY <1>1, <2>1, <2>2 DEF CallSound
<1>3. PairSound'
  <2> SUFFICES ASSUME NEW c \in Caller, NEW d \in Caller, call[c] # None, call[d] # None
      PROVE \/ call[c].time >= call[d].time
            \/ call[c].now - call[c].time <= call[d].now - call[d].time + setback'
      BY DEF PairSound
  <2>1. /\ call[c].now \in Int /\ call[c].time \in Int
        /\ call[d].now \in Int /\ call[d].time \in Int
        BY CallTyped
  <2>2. QED
        BY <1>1, <2>1 DEF PairSound
<1>4. EntrySound'
  <2> SUFFICES ASSUME NEW k \in Key, cache[k] # None
      PROVE /\ cache[k].uid = UidOf[k[1]]
            /\ cache[k].expiry - TTL - lastValid'[k] <= Drift'
      BY DEF EntrySound
  <2>1. cache[k].expiry \in Int /\ lastValid[k] \in Int
        BY EntryTyped
  <2>2. lastValid'[k] \in Int
        BY DEF TypeOK
  <2>3. QED
        BY <1>1, <2>1, <2>2, TTLAssumption DEF EntrySound
<1>5. EntryCallSound'
  <2> SUFFICES ASSUME NEW c \in Caller, call[c] # None, cache[call[c].key] # None
      PROVE \/ lastValid'[call[c].key] >= call[c].time
            \/ cache[call[c].key].expiry - TTL - lastValid'[call[c].key]
                 <= call[c].now - call[c].time + setback'
      BY DEF EntryCallSound
  <2>1. call[c].key \in Key /\ call[c].now \in Int /\ call[c].time \in Int
        BY CallTyped
  <2>2. cache[call[c].key].expiry \in Int /\ lastValid[call[c].key] \in Int
        BY <2>1, EntryTyped
  <2>3. lastValid'[call[c].key] \in Int /\ lastValid[call[c].key] <= lastValid'[call[c].key]
        BY <2>1 DEF TypeOK
  <2>4. \/ lastValid[call[c].key] >= call[c].time
        \/ cache[call[c].key].expiry - TTL - lastValid[call[c].key]
             <= call[c].now - call[c].time + setback
        BY DEF EntryCallSound
  <2>5. QED
        BY <1>1, <2>1, <2>2, <2>3, <2>4, TTLAssumption
<1>6. ResultSound'
  <2> SUFFICES ASSUME NEW c \in Caller, result[c] # None
      PROVE /\ result[c].uid # None =>
                 /\ result[c].uid = UidOf[result[c].key[1]]
                 /\ \/ lastValid'[result[c].key] >= result[c].time
                    \/ result[c].time - lastValid'[result[c].key] < TTL + setback'
            /\ result[c].uid = None =>
                 \/ ~Enabled \/ result[c].key[1] \in Blank
                 \/ result[c].failed \/ lastInvalid'[result[c].key] >= result[c].time
      BY DEF ResultSound, VerifiedWasValid, RefusalIsCurrent
  <2>1. /\ result[c].key \in Key /\ result[c].time \in Int
        /\ lastValid[result[c].key] \in Int /\ lastInvalid[result[c].key] \in Int
        BY ResultTyped
  <2>2. lastValid'[result[c].key] \in Int /\ lastInvalid'[result[c].key] \in Int
        BY <2>1 DEF TypeOK
  <2>3. QED
        BY <1>1, <2>1, <2>2, TTLAssumption DEF ResultSound, VerifiedWasValid, RefusalIsCurrent
<1>7. QED
      BY <1>2, <1>3, <1>4, <1>5, <1>6

\* Returning keeps everything but the cache, provided what is returned may be.
LEMMA ReturnKeeps ==
  ASSUME IInv, NEW c \in Caller, NEW k \in Key, NEW uid \in Uid \cup {None},
         NEW time \in Int, NEW failed \in BOOLEAN, Return(c, k, uid, time, failed),
         UNCHANGED <<valid, clock, history>>,
         uid # None => /\ uid = UidOf[k[1]]
                       /\ lastValid[k] >= time \/ time - lastValid[k] < TTL + setback,
         uid = None => ~Enabled \/ k[1] \in Blank \/ failed \/ lastInvalid[k] >= time
  PROVE  /\ cache' \in [Key -> Entry \cup {None}] => TypeOK'
         /\ LastSound' /\ CallSound' /\ PairSound' /\ ResultSound'
         /\ \A d \in Caller : call'[d] # None => call'[d] = call[d]
<1> USE DEF IInv, Return, clock, history
<1>1. [key |-> k, uid |-> uid, time |-> time, failed |-> failed] \in Result
      BY DEF Result
<1>2. /\ result' \in [Caller -> Result \cup {None}]
      /\ call' \in [Caller -> Call \cup {None}]
      BY <1>1 DEF TypeOK
<1>3. cache' \in [Key -> Entry \cup {None}] => TypeOK'
      BY <1>2 DEF TypeOK
<1>4. \A d \in Caller : call'[d] # None => call[d] # None /\ call'[d] = call[d]
      BY DEF TypeOK
<1>5. LastSound'
      BY DEF LastSound
<1>6. CallSound'
      BY <1>4 DEF CallSound, Drift
<1>7. PairSound'
      BY <1>4 DEF PairSound
<1>8. ResultSound'
  <2>1. \A d \in Caller : d # c => result'[d] = result[d]
        BY DEF TypeOK
  <2>2. result'[c] = [key |-> k, uid |-> uid, time |-> time, failed |-> failed]
        BY DEF TypeOK
  <2>3. VerifiedWasValid'
        BY <2>1, <2>2 DEF ResultSound, VerifiedWasValid
  <2>4. RefusalIsCurrent'
        BY <2>1, <2>2 DEF ResultSound, RefusalIsCurrent
  <2>5. QED
        BY <2>3, <2>4 DEF ResultSound
<1>9. QED
      BY <1>3, <1>4, <1>5, <1>6, <1>7, <1>8

\* If the cache is left alone too, that is the whole invariant.
LEMMA ReturnKeepsCache ==
  ASSUME IInv, NEW c \in Caller, NEW k \in Key, NEW uid \in Uid \cup {None},
         NEW time \in Int, NEW failed \in BOOLEAN, Return(c, k, uid, time, failed),
         UNCHANGED <<cache, valid, clock, history>>,
         uid # None => /\ uid = UidOf[k[1]]
                       /\ lastValid[k] >= time \/ time - lastValid[k] < TTL + setback,
         uid = None => ~Enabled \/ k[1] \in Blank \/ failed \/ lastInvalid[k] >= time
  PROVE  IInv'
<1>1. cache' \in [Key -> Entry \cup {None}]
      BY DEF IInv, TypeOK
<1>2. UNCHANGED <<valid, clock, history>>
      OBVIOUS
<1>3. /\ TypeOK' /\ LastSound' /\ CallSound' /\ PairSound' /\ ResultSound'
      /\ \A d \in Caller : call'[d] # None => call'[d] = call[d]
      BY <1>1, <1>2, ReturnKeeps
<1>4. EntrySound' /\ EntryCallSound'
      BY <1>3 DEF IInv, EntrySound, EntryCallSound, Drift, clock, history
<1>5. QED
      BY <1>3, <1>4 DEF IInv

\* A call that learns something true keeps the invariant.
LEMMA AdvanceKeeps ==
  ASSUME IInv, NEW c \in Caller, call[c] # None,
         call' \in [Caller -> Call \cup {None}],
         \A d \in Caller : d # c => call'[d] = call[d],
         call'[c].key = call[c].key, call'[c].now = call[c].now,
         call'[c].time = call[c].time,
         UNCHANGED <<cache, result, valid, clock, history>>,
         call'[c].phase # "replied" => call'[c].uid = None,
         call'[c].uid # None => /\ call'[c].uid = UidOf[call[c].key[1]]
                                /\ lastValid[call[c].key] >= call[c].time,
         call'[c].phase = "replied" /\ call'[c].uid = None /\ ~call'[c].failed =>
           lastInvalid[call[c].key] >= call[c].time
  PROVE  IInv'
<1> USE DEF IInv, clock, history
<1>1. \A d \in Caller : call'[d] # None =>
        /\ call[d] # None /\ call'[d].key = call[d].key
        /\ call'[d].now = call[d].now /\ call'[d].time = call[d].time
      OBVIOUS
<1>2. TypeOK' /\ LastSound' /\ EntrySound' /\ ResultSound'
      BY DEF TypeOK, LastSound, EntrySound, ResultSound, VerifiedWasValid,
             RefusalIsCurrent, Drift
<1>3. CallSound'
      BY DEF CallSound, Drift
<1>4. PairSound' /\ EntryCallSound'
      BY <1>1 DEF PairSound, EntryCallSound
<1>5. QED
      BY <1>2, <1>3, <1>4

LEMMA StepIInv == IInv /\ [Next]_vars => IInv'
<1> SUFFICES ASSUME IInv, [Next]_vars PROVE IInv'
    OBVIOUS
<1> USE NoneAssumption, UidAssumption, TTLAssumption, BoundAssumption
<1>0. /\ TypeOK /\ LastSound /\ CallSound /\ PairSound /\ EntrySound /\ EntryCallSound
      /\ ResultSound
      /\ now \in Int /\ elapsed \in Int /\ setback \in Int /\ elapsed >= 0 /\ setback >= 0
      BY ClockTyped DEF IInv
<1>1. ASSUME NEW c \in Caller, NEW k \in Key, RefuseOffhand(c, k) PROVE IInv'
      BY <1>0, <1>1, ReturnKeepsCache DEF RefuseOffhand
<1>2. ASSUME NEW c \in Caller, NEW k \in Key, Begin(c, k) PROVE IInv'
  <2> USE <1>2 DEF Begin
  <2> DEFINE new == [key |-> k, now |-> now, time |-> elapsed, phase |-> "clocked",
                     uid |-> None, failed |-> FALSE]
  <2>1. new \in Call
        BY <1>0 DEF Call, Phase
  <2>2. /\ call'[c] = new /\ \A d \in Caller : d # c => call'[d] = call[d]
        /\ call' \in [Caller -> Call \cup {None}]
        /\ UNCHANGED <<cache, result, valid, now, elapsed, setback, lastValid, lastInvalid>>
        BY <1>0, <2>1 DEF TypeOK, clock, history
  <2>3. TypeOK' /\ LastSound' /\ EntrySound' /\ ResultSound'
        BY <1>0, <2>2 DEF TypeOK, LastSound, EntrySound, ResultSound, VerifiedWasValid,
                          RefusalIsCurrent, Drift
  <2>4. CallSound'
        BY <1>0, <2>2 DEF CallSound, Drift
  <2>5. PairSound'
    <3> SUFFICES ASSUME NEW a \in Caller, NEW b \in Caller, call'[a] # None, call'[b] # None
        PROVE \/ call'[a].time >= call'[b].time
              \/ call'[a].now - call'[a].time <= call'[b].now - call'[b].time + setback
        BY <2>2 DEF PairSound
    <3>1. CASE a = c
      <4>1. CASE b = c
            BY <1>0, <2>2, <3>1, <4>1
      <4>2. CASE b # c
            BY <1>0, <2>2, <3>1, <4>2, CallTyped DEF CallSound
      <4>3. QED
            BY <4>1, <4>2
    <3>2. CASE a # c
      <4>1. call[a] # None /\ call'[a] = call[a]
            BY <2>2, <3>2
      <4>2. call[a].now - call[a].time <= Drift
            BY <1>0, <4>1 DEF CallSound
      <4>3. CASE b = c
            BY <1>0, <2>2, <4>1, <4>2, <4>3, CallTyped DEF Drift
      <4>4. CASE b # c
            BY <1>0, <2>2, <4>1, <4>4 DEF PairSound
      <4>5. QED
            BY <4>3, <4>4
    <3>3. QED
          BY <3>1, <3>2
  <2>6. EntryCallSound'
    <3> SUFFICES ASSUME NEW a \in Caller, call'[a] # None, cache[call'[a].key] # None
        PROVE \/ lastValid[call'[a].key] >= call'[a].time
              \/ cache[call'[a].key].expiry - TTL - lastValid[call'[a].key]
                   <= call'[a].now - call'[a].time + setback
        BY <2>2 DEF EntryCallSound
    <3>1. CASE a = c
      <4>1. cache[k].expiry - TTL - lastValid[k] <= Drift
            BY <1>0, <2>2, <3>1 DEF EntrySound
      <4>2. cache[k].expiry \in Int /\ lastValid[k] \in Int
            BY <1>0, <2>2, <3>1, EntryTyped
      <4>3. QED
            BY <1>0, <2>2, <3>1, <4>1, <4>2 DEF Drift
    <3>2. CASE a # c
          BY <1>0, <2>2, <3>2 DEF EntryCallSound
    <3>3. QED
          BY <3>1, <3>2
  <2>7. QED
        BY <2>3, <2>4, <2>5, <2>6 DEF IInv
<1>3. ASSUME NEW c \in Caller, Hit(c) PROVE IInv'
  <2> USE <1>3 DEF Hit, At, Fresh
  <2> DEFINE k == call[c].key
             e == cache[k]
  <2>1. /\ k \in Key /\ call[c].now \in Int /\ call[c].time \in Int
        /\ lastValid[k] \in Int /\ e # None
        BY <1>0, CallTyped
  <2>2. e.expiry \in Int /\ e.uid \in Uid \cup {None}
        BY <1>0, <2>1, EntryTyped
  <2>3. e.uid = UidOf[k[1]] /\ e.uid # None
        BY <1>0, <2>1, KeyTyped DEF EntrySound
  <2>4. lastValid[k] >= call[c].time \/ call[c].time - lastValid[k] < TTL + setback
    <3>1. \/ lastValid[k] >= call[c].time
          \/ e.expiry - TTL - lastValid[k] <= call[c].now - call[c].time + setback
          BY <1>0, <2>1 DEF EntryCallSound
    <3>2. e.expiry > call[c].now
          OBVIOUS
    <3>3. QED
          BY <1>0, <2>1, <2>2, <3>1, <3>2
  <2>5. Return(c, k, e.uid, call[c].time, FALSE) /\ UNCHANGED <<cache, valid, clock, history>>
        OBVIOUS
  <2>6. QED
        BY <1>0, <2>1, <2>2, <2>3, <2>4, <2>5, ReturnKeepsCache
<1>4. ASSUME NEW c \in Caller, Send(c) PROVE IInv'
  <2> USE <1>4 DEF Send, At
  <2>1. /\ call[c] \in Call /\ call[c].key \in Key /\ call[c].time <= elapsed
        /\ call[c].uid = None
        BY <1>0, CallTyped DEF CallSound
  <2>2. /\ call' \in [Caller -> Call \cup {None}]
        /\ \A d \in Caller : d # c => call'[d] = call[d]
        BY <1>0, <2>1 DEF TypeOK, Call, Phase
  <2>3. /\ call'[c].key = call[c].key /\ call'[c].now = call[c].now
        /\ call'[c].time = call[c].time /\ call'[c].phase = "sent" /\ call'[c].uid = None
        BY <1>0, <2>1 DEF TypeOK, Call
  <2>4. QED
        BY <1>0, <2>2, <2>3, AdvanceKeeps
<1>5. ASSUME NEW c \in Caller, ManagerReplies(c) PROVE IInv'
  <2> USE <1>5 DEF ManagerReplies, At
  <2>1. /\ call[c] \in Call /\ call[c].key \in Key /\ call[c].time <= elapsed
        /\ call[c].uid = None
        BY <1>0, CallTyped DEF CallSound
  <2> DEFINE k   == call[c].key
             uid == IF k \in valid THEN UidOf[k[1]] ELSE None
  <2>2. /\ uid \in Uid \cup {None}
        /\ uid # None => uid = UidOf[k[1]] /\ lastValid[k] >= call[c].time
        /\ uid = None => lastInvalid[k] >= call[c].time
        BY <1>0, <2>1, CallTyped, KeyTyped DEF LastSound
  <2>3. call' = [call EXCEPT ![c].phase = "replied", ![c].uid = uid]
        OBVIOUS
  <2> HIDE <1>5 DEF uid
  <2>4. /\ call' \in [Caller -> Call \cup {None}]
        /\ \A d \in Caller : d # c => call'[d] = call[d]
        BY <1>0, <2>1, <2>2, <2>3 DEF TypeOK, Call, Phase
  <2>5. /\ call'[c].key = call[c].key /\ call'[c].now = call[c].now
        /\ call'[c].time = call[c].time /\ call'[c].phase = "replied" /\ call'[c].uid = uid
        BY <1>0, <2>1, <2>3 DEF TypeOK, Call
  <2>6. call[c] # None /\ UNCHANGED <<cache, result, valid, clock, history>>
        BY <1>5
  <2>7. QED
        BY <1>0, <2>2, <2>4, <2>5, <2>6, AdvanceKeeps
<1>6. ASSUME NEW c \in Caller, CallFails(c) PROVE IInv'
  <2> USE <1>6 DEF CallFails, At
  <2>1. /\ call[c] \in Call /\ call[c].key \in Key /\ call[c].time <= elapsed
        /\ call[c].uid = None
        BY <1>0, CallTyped DEF CallSound
  <2>2. /\ call' \in [Caller -> Call \cup {None}]
        /\ \A d \in Caller : d # c => call'[d] = call[d]
        BY <1>0, <2>1 DEF TypeOK, Call, Phase
  <2>3. /\ call'[c].key = call[c].key /\ call'[c].now = call[c].now
        /\ call'[c].time = call[c].time /\ call'[c].phase = "replied"
        /\ call'[c].uid = None /\ call'[c].failed = TRUE
        BY <1>0, <2>1 DEF TypeOK, Call
  <2>4. QED
        BY <1>0, <2>2, <2>3, AdvanceKeeps
<1>7. ASSUME NEW c \in Caller, Denied(c) PROVE IInv'
  <2> USE <1>7 DEF Denied, At
  <2>1. /\ call[c].key \in Key /\ call[c].time \in Int /\ call[c].failed \in BOOLEAN
        BY <1>0, CallTyped
  <2>2. call[c].failed \/ lastInvalid[call[c].key] >= call[c].time
        BY <1>0 DEF CallSound
  <2>3. QED
        BY <1>0, <2>1, <2>2, ReturnKeepsCache
<1>8. ASSUME NEW c \in Caller, Verified(c) PROVE IInv'
  <2> USE <1>8 DEF Verified, At
  <2> DEFINE k == call[c].key
  <2>1. /\ k \in Key /\ call[c].time \in Int /\ call[c].now \in Int
        /\ call[c].uid \in Uid \cup {None} /\ lastValid[k] \in Int
        BY <1>0, CallTyped
  <2>2. /\ call[c].uid = UidOf[k[1]] /\ lastValid[k] >= call[c].time
        /\ call[c].now - call[c].time <= Drift
        BY <1>0 DEF CallSound
  <2>3. [uid |-> call[c].uid, expiry |-> call[c].now + TTL] \in Entry
        BY <2>1 DEF Entry
  <2>4. /\ cache' \in [Key -> Entry \cup {None}]
        /\ cache'[k].uid = call[c].uid /\ cache'[k].expiry = call[c].now + TTL
        /\ \A j \in Key : j # k => cache'[j] = cache[j]
        BY <1>0, <2>1, <2>3 DEF TypeOK, Expiry
  <2>5. Return(c, k, call[c].uid, call[c].time, FALSE) /\ UNCHANGED <<valid, clock, history>>
        OBVIOUS
  <2>6. /\ TypeOK' /\ LastSound' /\ CallSound' /\ PairSound' /\ ResultSound'
        /\ \A d \in Caller : call'[d] # None => call'[d] = call[d]
        BY <1>0, <2>1, <2>2, <2>4, <2>5, ReturnKeeps
  <2>7. UNCHANGED <<now, elapsed, setback, lastValid>>
        BY DEF clock, history
  <2>8. EntrySound'
    <3> SUFFICES ASSUME NEW j \in Key, cache'[j] # None
        PROVE cache'[j].uid = UidOf[j[1]] /\ cache'[j].expiry - TTL - lastValid[j] <= Drift
        BY <2>7 DEF EntrySound, Drift
    <3>1. CASE j = k
          BY <1>0, <2>1, <2>2, <2>4, <3>1 DEF Drift
    <3>2. CASE j # k
          BY <1>0, <2>4, <3>2 DEF EntrySound
    <3>3. QED
          BY <3>1, <3>2
  <2>9. EntryCallSound'
    <3> SUFFICES ASSUME NEW d \in Caller, call'[d] # None, cache'[call'[d].key] # None
        PROVE \/ lastValid[call'[d].key] >= call'[d].time
              \/ cache'[call'[d].key].expiry - TTL - lastValid[call'[d].key]
                   <= call'[d].now - call'[d].time + setback
        BY <2>7 DEF EntryCallSound
    <3>1. /\ call'[d] = call[d] /\ call[d] # None /\ call[d].key \in Key
          /\ call[d].time \in Int /\ call[d].now \in Int
          BY <1>0, <2>6, CallTyped
    <3>2. CASE call[d].key = k
      <4>1. \/ call[c].time >= call[d].time
            \/ call[c].now - call[c].time <= call[d].now - call[d].time + setback
            BY <1>0, <3>1 DEF PairSound
      <4>2. QED
            BY <1>0, <2>1, <2>2, <2>4, <3>1, <3>2, <4>1
    <3>3. CASE call[d].key # k
          BY <1>0, <2>4, <3>1, <3>3 DEF EntryCallSound
    <3>4. QED
          BY <3>2, <3>3
  <2>10. QED
        BY <2>6, <2>8, <2>9 DEF IInv
<1>9. ASSUME NEW k \in Key, Revokes(k) PROVE IInv'
  <2> USE <1>9 DEF Revokes, clock
  <2>1. TypeOK' /\ LastSound'
        BY <1>0 DEF TypeOK, LastSound, verifier
  <2>2. \A j \in Key : lastValid[j] <= lastValid'[j] /\ lastInvalid[j] <= lastInvalid'[j]
        BY <1>0 DEF TypeOK, LastSound
  <2>3. QED
        BY <1>0, <2>1, <2>2, EnvironmentKeeps DEF Drift
<1>10. ASSUME NEW k \in Key, Reinstates(k) PROVE IInv'
  <2> USE <1>10 DEF Reinstates, clock
  <2>1. TypeOK' /\ LastSound'
        BY <1>0 DEF TypeOK, LastSound, verifier
  <2>2. \A j \in Key : lastValid[j] <= lastValid'[j] /\ lastInvalid[j] <= lastInvalid'[j]
        BY <1>0 DEF TypeOK, LastSound
  <2>3. QED
        BY <1>0, <2>1, <2>2, EnvironmentKeeps DEF Drift
<1>11. CASE Tick
  <2> USE <1>11 DEF Tick
  <2>1. TypeOK' /\ LastSound'
        BY <1>0 DEF TypeOK, LastSound, verifier
  <2>2. \A j \in Key : lastValid[j] <= lastValid'[j] /\ lastInvalid[j] <= lastInvalid'[j]
        BY <1>0 DEF TypeOK, LastSound
  <2>3. QED
        BY <1>0, <2>1, <2>2, EnvironmentKeeps DEF Drift
<1>12. ASSUME NEW t \in 0..MaxTime, SetClock(t) PROVE IInv'
  <2> USE <1>12 DEF SetClock, history
  <2>1. TypeOK' /\ LastSound'
        BY <1>0 DEF TypeOK, LastSound, verifier
  <2>2. \A j \in Key : lastValid[j] <= lastValid'[j] /\ lastInvalid[j] <= lastInvalid'[j]
        BY <1>0 DEF TypeOK
  <2>3. setback <= setback' /\ Drift <= Drift'
        BY <1>0 DEF Drift
  <2>4. QED
        BY <1>0, <2>1, <2>2, <2>3, EnvironmentKeeps
<1>13. CASE UNCHANGED vars
      BY <1>0, <1>13 DEF vars, IInv, TypeOK, LastSound, CallSound, PairSound, EntrySound,
         EntryCallSound, ResultSound, VerifiedWasValid, RefusalIsCurrent, Drift
<1>14. QED
      BY <1>1, <1>2, <1>3, <1>4, <1>5, <1>6, <1>7, <1>8, <1>9, <1>10, <1>11, <1>12, <1>13
      DEF Next, Step, Environment
-----------------------------------------------------------------------------
LEMMA SpecIInv == Spec => []IInv
BY InitIInv, StepIInv, PTL DEF Spec

\* Entries, calls and results keep their shape.
THEOREM TypeCorrect == Spec => []TypeOK
BY SpecIInv, PTL DEF IInv

\* A uid returned is that of a credential which was valid during the call, or less
\* than TTL plus what the wall clock was put back before it, however many callers
\* there are and in whatever order they store and find.
THEOREM VerifiedValid == Spec => []VerifiedWasValid
BY SpecIInv, PTL DEF IInv, ResultSound

\* No refusal outlives the call it answers.
THEOREM RefusesCurrently == Spec => []RefusalIsCurrent
BY SpecIInv, PTL DEF IInv, ResultSound
-----------------------------------------------------------------------------

LEMMA Updated ==
  ASSUME NEW S, NEW f, NEW g, f = [d \in S |-> f[d]], g = [d \in S |-> g[d]],
         NEW c \in S, NEW v, g[c] = v, \A d \in S : d # c => g[d] = f[d]
  PROVE  g = [f EXCEPT ![c] = v]
OBVIOUS

\* Returning is answering.
LEMMA ReturnAnswers ==
  ASSUME IInv, IInv', NEW c \in Caller, NEW k \in Key, NEW uid \in Uid \cup {None},
         NEW time \in 0..elapsed, NEW failed \in BOOLEAN,
         Return(c, k, uid, time, failed), UNCHANGED <<valid, clock, history>>
  PROVE  Verification!Next
<1> USE DEF Return, clock, history
<1> DEFINE new == [key |-> k, uid |-> uid, time |-> time, failed |-> failed]
<1>1. new # None
      BY NoneAssumption, ClockTyped DEF IInv, Result
<1>2. /\ result'[c] = new
      /\ \A d \in Caller : d # c => result'[d] = result[d]
      BY DEF IInv, TypeOK
<1>3. uid # None => Verification!MayBeYes(k, time)
      BY <1>1, <1>2 DEF IInv, ResultSound, VerifiedWasValid, Verification!MayBeYes
<1>4. Verification!Answer(c, k, time, uid # None)
  <2> DEFINE before == [d \in Caller |->
                          IF result[d] = None THEN None
                          ELSE [question |-> result[d].key, asked |-> result[d].time,
                                yes |-> result[d].uid # None]]
             after  == [d \in Caller |->
                          IF result'[d] = None THEN None
                          ELSE [question |-> result'[d].key, asked |-> result'[d].time,
                                yes |-> result'[d].uid # None]]
             told   == [question |-> k, asked |-> time, yes |-> uid # None]
  <2>1. after[c] = told /\ \A d \in Caller : d # c => after[d] = before[d]
        BY <1>1, <1>2
  <2>2. /\ before = [d \in Caller |-> before[d]]
        /\ after = [d \in Caller |-> after[d]]
        OBVIOUS
  <2>3. after = [before EXCEPT ![c] = told]
    <3> HIDE DEF before, after, told
    <3>1. QED
          BY <2>1, <2>2, Updated
  <2>4. QED
        BY <1>3, <2>3 DEF Verification!Answer
<1>5. (uid # None) \in BOOLEAN
      OBVIOUS
<1>6. QED
      BY <1>4, <1>5 DEF Verification!Next

\* What the verifier does while a call is in progress is no answer.
LEMMA SilentStep ==
  ASSUME UNCHANGED <<result, clock, history>>
  PROVE  UNCHANGED Verification!vars
BY DEF Verification!vars, clock, history

LEMMA EnvironmentMoves ==
  ASSUME IInv, IInv', UNCHANGED verifier, elapsed' >= elapsed, setback' >= setback,
         \A k \in Key : lastValid'[k] \in {lastValid[k], elapsed'}
  PROVE  Verification!Next
BY DEF Verification!Next, Verification!Move, verifier

LEMMA StepRefines == IInv /\ IInv' /\ [Next]_vars => [Verification!Next]_(Verification!vars)
<1> SUFFICES ASSUME IInv, IInv', [Next]_vars
             PROVE  Verification!Next \/ UNCHANGED Verification!vars
    OBVIOUS
<1>0. /\ TypeOK /\ TypeOK' /\ now \in Int /\ elapsed \in Int /\ setback \in Int
      /\ elapsed >= 0 /\ elapsed \in 0..elapsed
      BY ClockTyped DEF IInv
<1>1. ASSUME NEW c \in Caller, NEW k \in Key, RefuseOffhand(c, k) PROVE Verification!Next
      BY <1>0, <1>1, ReturnAnswers DEF RefuseOffhand
<1>2. ASSUME NEW c \in Caller, Hit(c) \/ Denied(c) \/ Verified(c) PROVE Verification!Next
  <2>0. call[c] # None
        BY <1>2 DEF Hit, Denied, Verified, At
  <2>1. /\ call[c].key \in Key /\ call[c].time \in 0..elapsed
        /\ call[c].uid \in Uid \cup {None} /\ call[c].failed \in BOOLEAN
        BY <1>0, <2>0, CallTyped DEF IInv, CallSound
  <2>2. CASE Hit(c)
    <3>1. cache[call[c].key].uid \in Uid \cup {None}
          BY <1>0, <2>1, <2>2, EntryTyped DEF Hit, Fresh
    <3>2. QED
          BY <2>1, <2>2, <3>1, ReturnAnswers DEF Hit
  <2>3. CASE Denied(c)
        BY <2>1, <2>3, ReturnAnswers DEF Denied
  <2>4. CASE Verified(c)
        BY <2>1, <2>4, ReturnAnswers DEF Verified
  <2>5. QED
        BY <1>2, <2>2, <2>3, <2>4
<1>3. ASSUME NEW c \in Caller,
             Send(c) \/ ManagerReplies(c) \/ CallFails(c) \/ \E k \in Key : Begin(c, k)
      PROVE  UNCHANGED Verification!vars
      BY <1>3, SilentStep DEF Send, ManagerReplies, CallFails, Begin
<1>4. ASSUME NEW k \in Key, Revokes(k) \/ Reinstates(k) PROVE Verification!Next
      BY <1>0, <1>4, EnvironmentMoves DEF Revokes, Reinstates, clock, TypeOK
<1>5. CASE Tick
      BY <1>0, <1>5, EnvironmentMoves DEF Tick, TypeOK
<1>6. ASSUME NEW t \in 0..MaxTime, SetClock(t) PROVE Verification!Next
      BY <1>0, <1>6, EnvironmentMoves DEF SetClock, history
<1>7. CASE UNCHANGED vars
      BY <1>7, SilentStep DEF vars, clock, history
<1>8. QED
      BY <1>1, <1>2, <1>3, <1>4, <1>5, <1>6, <1>7 DEF Next, Step, Environment

LEMMA InitRefines == Init => Verification!Init
<1> SUFFICES ASSUME Init PROVE Verification!Init
    OBVIOUS
<1>1. lastValid \in [Key -> Int]
      BY InitIInv DEF IInv, TypeOK
<1>2. QED
      BY <1>1 DEF Init, Verification!Init

\* The verifier, lock, cache and HTTP call included, does nothing that a check
\* whose answers are at most TTL old could not do.
THEOREM Implements == Spec => ImplementsFreshAnswer
<1>1. Spec => [][Verification!Next]_(Verification!vars)
      BY SpecIInv, StepRefines, PTL DEF Spec
<1>2. QED
      BY <1>1, InitRefines, PTL DEF Spec, ImplementsFreshAnswer, Verification!Spec
=============================================================================
