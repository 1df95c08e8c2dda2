--------------------------- MODULE TokenStoreProofs ---------------------------
(***************************************************************************)
(* What resolve, revoke and stats promise, for any set of tokens, any TTL  *)
(* and any behaviour of the wall clock.                                    *)
(*                                                                         *)
(* The inductive invariant says what TLC's properties leave implicit: the  *)
(* store holds exactly the tokens issued and not yet refused, each with the *)
(* identity and expiry of its birth, and the wall clock lags true time     *)
(* since then by no more than what it was put back.                        *)
(***************************************************************************)
EXTENDS TokenStore, FiniteSetTheorems, TLAPS

HeldIsIssuedNotRefused == Held = Issued \ refused /\ refused \subseteq Issued

EntryOfBirth ==
  \A tok \in Held : /\ tokens[tok].identity = minted[tok].identity
                    /\ tokens[tok].expiry = minted[tok].wall + TTL

ClockLag ==
  \A tok \in Issued :
    elapsed - minted[tok].time <= (now - minted[tok].wall) + (setback - minted[tok].setback)

IInv == TypeOK /\ HeldIsIssuedNotRefused /\ EntryOfBirth /\ ClockLag

LEMMA InitIInv == Init => IInv
BY BoundAssumption
DEF Init, IInv, TypeOK, HeldIsIssuedNotRefused, EntryOfBirth, ClockLag, Held, Issued

\* One step per operation of the store and per move of the clock.
LEMMA StepIInv == IInv /\ [Next]_vars => IInv'
<1> SUFFICES ASSUME IInv, [Next]_vars PROVE IInv'
    OBVIOUS
<1> USE NoEntryAssumption, TTLAssumption, BoundAssumption
<1> USE DEF IInv, TypeOK, HeldIsIssuedNotRefused, EntryOfBirth, ClockLag, Held, Issued,
            Entry, Birth
<1>1. ASSUME NEW tok \in Token, NEW i \in Identity, Issue(tok, i) PROVE IInv'
      BY <1>1 DEF Issue, clock
<1>2. ASSUME NEW tok \in Token, Resolve(tok) PROVE IInv'
      BY <1>2 DEF Resolve, Accepts, clock, vars
<1>3. ASSUME NEW tok \in Token, Revoke(tok) PROVE IInv'
      BY <1>3 DEF Revoke, clock
<1>4. CASE Tick
      BY <1>4 DEF Tick, store
<1>5. ASSUME NEW t \in 0..MaxTime, SetClock(t) PROVE IInv'
      BY <1>5 DEF SetClock, store
<1>6. CASE UNCHANGED vars
      BY <1>6 DEF vars
<1>7. QED
      BY <1>1, <1>2, <1>3, <1>4, <1>5, <1>6 DEF Next
-----------------------------------------------------------------------------
LEMMA SpecIInv == Spec => []IInv
BY InitIInv, StepIInv, PTL DEF Spec

\* The store always holds (identity, expiry) pairs.
THEOREM TypeCorrect == Spec => []TypeOK
BY SpecIInv, PTL DEF IInv

\* resolve accepts a token iff it was issued, has not been refused or revoked,
\* and its TTL has not run out on the wall clock, wherever that clock is put.
THEOREM ResolveExact == Spec => []AcceptsExactly
<1>1. IInv => AcceptsExactly
  <2> SUFFICES ASSUME IInv, NEW tok \in Token
               PROVE Accepts(tok) <=> tok \in Issued \ refused /\ ~Lapsed(tok)
      BY DEF AcceptsExactly
  <2>1. tok \in Held => /\ tok \in Issued
                        /\ tokens[tok].expiry = minted[tok].wall + TTL
                        /\ minted[tok].wall + TTL \in Int
                        /\ now \in Int
      BY TTLAssumption, BoundAssumption
      DEF IInv, TypeOK, HeldIsIssuedNotRefused, EntryOfBirth, Issued, Birth
  <2>2. tok \in Held <=> tok \in Issued \ refused
      BY DEF IInv, HeldIsIssuedNotRefused
  <2>3. QED
      BY <2>1, <2>2 DEF Accepts, Lapsed
<1>2. QED
      BY <1>1, SpecIInv, PTL

\* An accepted token stands for the identity it was issued to, and its life in
\* true time exceeds the TTL by at most what the wall clock was put back.
THEOREM LifetimeBounded == Spec => []LifetimeBound
<1>1. IInv => LifetimeBound
  <2> SUFFICES ASSUME IInv, NEW tok \in Token, Accepts(tok)
               PROVE /\ tokens[tok].identity = minted[tok].identity
                     /\ elapsed - minted[tok].time <= TTL + (setback - minted[tok].setback)
      BY DEF LifetimeBound
  <2>1. tok \in Held /\ tok \in Issued /\ now <= tokens[tok].expiry
      BY DEF Accepts, IInv, HeldIsIssuedNotRefused
  <2>2. minted[tok] \in Birth
      BY <2>1 DEF IInv, TypeOK, Issued
  <2>3. QED
      BY <2>1, <2>2, TTLAssumption, BoundAssumption
      DEF IInv, TypeOK, EntryOfBirth, ClockLag, Birth
<1>2. QED
      BY <1>1, SpecIInv, PTL

\* The "active" and "expired" gauges of /metrics count exactly the usable and
\* the lapsed-but-retained tokens, and add up to the store's size.
THEOREM StatsExact == Spec => []StatsHonest
<1>1. IInv => StatsHonest
  <2> SUFFICES ASSUME IInv PROVE StatsHonest
      OBVIOUS
  <2>1. \A tok \in Held : /\ tok \in Token /\ tok \in Issued
                          /\ tokens[tok].expiry = minted[tok].wall + TTL
                          /\ tokens[tok].expiry \in Int
                          /\ now \in Int
      BY BoundAssumption, NoEntryAssumption
      DEF IInv, TypeOK, HeldIsIssuedNotRefused, EntryOfBirth, Held, Entry
  <2>2. Held = Issued \ refused
      BY DEF IInv, HeldIsIssuedNotRefused
  <2>3. /\ Active  = {tok \in Issued \ refused : ~Lapsed(tok)}
        /\ Expired = {tok \in Issued \ refused : Lapsed(tok)}
      BY <2>1, <2>2 DEF Active, Expired, Lapsed
  <2>4. Active \cup Expired = Held /\ Active \cap Expired = {}
      BY <2>1 DEF Active, Expired
  <2>5. IsFiniteSet(Active) /\ IsFiniteSet(Expired)
      BY TokenAssumption, FS_Subset DEF Active, Expired, Held
  <2>6. Cardinality(Held) = Cardinality(Active) + Cardinality(Expired)
    <3>1. Cardinality(Active \cup Expired)
            = Cardinality(Active) + Cardinality(Expired) - Cardinality(Active \cap Expired)
        BY <2>5, FS_Union
    <3>2. Cardinality(Active) \in Nat /\ Cardinality(Expired) \in Nat
        BY <2>5, FS_CardinalityType
    <3>3. Cardinality(Active \cap Expired) = 0
        BY <2>4, FS_EmptySet
    <3>4. QED
        BY <2>4, <3>1, <3>2, <3>3
  <2>7. QED
      BY <2>3, <2>6 DEF StatsHonest, Stats
<1>2. QED
      BY <1>1, SpecIInv, PTL

\* No step takes a live token from the agents using it, and what is forgotten is
\* forgotten one presented or revoked token at a time.
THEOREM ForgetsOnlyPresented == Spec => OnlyPresentedForgotten
<1> DEFINE Forgets ==
      \A tok \in Held : tokens'[tok] = NoEntry =>
        /\ tok \in refused'
        /\ Held \ {tok} \subseteq {t \in Token : tokens'[t] # NoEntry}
<1>1. IInv /\ [Next]_vars => [Forgets]_vars
  <2> SUFFICES ASSUME IInv, Next PROVE Forgets
      OBVIOUS
  <2> USE NoEntryAssumption, TTLAssumption, BoundAssumption
  <2> USE DEF IInv, TypeOK, Held, Entry
  <2>1. ASSUME NEW tok \in Token, NEW i \in Identity, Issue(tok, i) PROVE Forgets
        BY <2>1 DEF Issue, clock
  <2>2. ASSUME NEW tok \in Token, Resolve(tok) PROVE Forgets
        BY <2>2 DEF Resolve, Accepts, clock, vars
  <2>3. ASSUME NEW tok \in Token, Revoke(tok) PROVE Forgets
        BY <2>3 DEF Revoke, clock
  <2>4. ASSUME Tick \/ \E t \in 0..MaxTime : SetClock(t) PROVE Forgets
        BY <2>4 DEF Tick, SetClock, store
  <2>5. QED
        BY <2>1, <2>2, <2>3, <2>4 DEF Next
<1>2. QED
      BY <1>1, SpecIInv, PTL DEF Spec, OnlyPresentedForgotten
=============================================================================
