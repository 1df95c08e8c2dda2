------------------------------ MODULE TokenStore ------------------------------
(***************************************************************************)
(* token_store.py: the in-memory store of bearer tokens behind the HTTP    *)
(* transport.  One verified login issues a token, which is accepted until  *)
(* its expiry on the WALL clock (time.time()), a clock that may be stepped. *)
(* An entry leaves the store only when that very token is presented after  *)
(* its expiry, or is revoked: nothing prunes.                              *)
(*                                                                         *)
(* Every method runs under the store's lock, and in the server on the one  *)
(* event-loop thread, so each is one step.                                 *)
(*                                                                         *)
(* Operators whose name ends in a capitalised remark after an underscore   *)
(* are deviations: the definition that follows, as a plausible mistake     *)
(* would have written it.  PROJECT.json says which property refutes each.  *)
(***************************************************************************)
EXTENDS Integers, FiniteSets

CONSTANTS
  Token,       \* the values secrets.token_urlsafe can return
  Identity,    \* resolved identities (ldap_auth.Identity)
  NoEntry,     \* "not in the dict"
  TTL,         \* ttl_seconds, int(MCP_TOKEN_TTL): any integer
  MaxTime,     \* bound: the wall clock and true time stay in 0..MaxTime
  MaxSetback   \* bound: seconds the wall clock is put back in all

Entry == [identity : Identity, expiry : Int]
Birth == [identity : Identity, wall : Int, time : Int, setback : Int]

ASSUME TokenAssumption   == IsFiniteSet(Token)
ASSUME TTLAssumption     == TTL \in Int
ASSUME BoundAssumption   == MaxTime \in Nat /\ MaxSetback \in Nat
ASSUME NoEntryAssumption == NoEntry \notin Entry \cup Birth

VARIABLES
  tokens,   \* _tokens: Token -> (identity, expiry)
  now,      \* time.time()
  elapsed,  \* true time since the process started (history)
  setback,  \* seconds by which the wall clock was put back so far (history)
  minted,   \* what was issued, and when (history)
  refused   \* issued tokens that resolve has refused, or revoke removed (history)

store == <<tokens, minted, refused>>
clock == <<now, elapsed, setback>>
vars  == <<tokens, now, elapsed, setback, minted, refused>>

Held == {tok \in Token : tokens[tok] # NoEntry}

Init ==
  /\ tokens  = [tok \in Token |-> NoEntry]
  /\ minted  = [tok \in Token |-> NoEntry]
  /\ refused = {}
  /\ now = 0 /\ elapsed = 0 /\ setback = 0
-----------------------------------------------------------------------------
Issue_TTLTwice(tok, i) ==
  /\ minted[tok] = NoEntry
  /\ tokens' = [tokens EXCEPT ![tok] = [identity |-> i, expiry |-> now + TTL + TTL]]
  /\ minted' = [minted EXCEPT ![tok] = [identity |-> i, wall |-> now,
                                        time |-> elapsed, setback |-> setback]]
  /\ UNCHANGED <<refused, clock>>

Issue_ExpiryFirst(tok, i) ==
  /\ minted[tok] = NoEntry
  /\ tokens' = [tokens EXCEPT ![tok] = [identity |-> now + TTL, expiry |-> i]]
  /\ minted' = [minted EXCEPT ![tok] = [identity |-> i, wall |-> now,
                                        time |-> elapsed, setback |-> setback]]
  /\ UNCHANGED <<refused, clock>>

\* issue(identity).  token_urlsafe(32) never repeats a value.
Issue(tok, i) ==
  /\ minted[tok] = NoEntry
  /\ tokens' = [tokens EXCEPT ![tok] = [identity |-> i, expiry |-> now + TTL]]
  /\ minted' = [minted EXCEPT ![tok] = [identity |-> i, wall |-> now,
                                        time |-> elapsed, setback |-> setback]]
  /\ UNCHANGED <<refused, clock>>

\* What resolve(token) answers at this instant: an entry still in its lifetime.
Accepts(tok) == tok \in Held /\ now <= tokens[tok].expiry

Resolve_KeepsExpired(tok) ==
  /\ refused' = IF tok \in Held /\ ~Accepts(tok) THEN refused \cup {tok} ELSE refused
  /\ UNCHANGED <<tokens, minted, clock>>

\* resolve(token): unknown -> None; expired -> forget it, None; else its identity.
Resolve(tok) ==
  \/ /\ tok \notin Held
     /\ UNCHANGED vars
  \/ /\ tok \in Held /\ now > tokens[tok].expiry
     /\ tokens'  = [tokens EXCEPT ![tok] = NoEntry]
     /\ refused' = refused \cup {tok}
     /\ UNCHANGED <<minted, clock>>
  \/ /\ Accepts(tok)
     /\ UNCHANGED vars

\* revoke(token): pop, whether or not it is there.
Revoke(tok) ==
  /\ tokens'  = [tokens EXCEPT ![tok] = NoEntry]
  /\ refused' = IF tok \in Held THEN refused \cup {tok} ELSE refused
  /\ UNCHANGED <<minted, clock>>

Active_NotYet == {tok \in Held : tokens[tok].expiry > now}

\* stats(): the tokens behind "active" and "expired".  It prunes nothing.
Active  == {tok \in Held : tokens[tok].expiry >= now}
Expired == {tok \in Held : tokens[tok].expiry < now}
Stats   == [active |-> Cardinality(Active), expired |-> Cardinality(Expired),
            total  |-> Cardinality(Held)]

-----------------------------------------------------------------------------
\* The wall clock follows true time ...
Tick ==
  /\ now < MaxTime /\ elapsed < MaxTime
  /\ now' = now + 1 /\ elapsed' = elapsed + 1
  /\ UNCHANGED <<setback, store>>

\* ... until somebody sets it, forwards or back.
SetClock(t) ==
  /\ now' = t
  /\ setback' = IF t < now THEN setback + (now - t) ELSE setback
  /\ setback' <= MaxSetback
  /\ UNCHANGED <<elapsed, store>>

Next ==
  \/ \E tok \in Token, i \in Identity : Issue(tok, i)
  \/ \E tok \in Token : Resolve(tok)
  \/ \E tok \in Token : Revoke(tok)
  \/ Tick
  \/ \E t \in 0..MaxTime : SetClock(t)

Spec == Init /\ [][Next]_vars
-----------------------------------------------------------------------------
\* The dict holds (identity, expiry) pairs, the history what was issued.
TypeOK ==
  /\ tokens  \in [Token -> Entry \cup {NoEntry}]
  /\ minted  \in [Token -> Birth \cup {NoEntry}]
  /\ refused \in SUBSET Token
  /\ now \in 0..MaxTime /\ elapsed \in 0..MaxTime /\ setback \in 0..MaxSetback

Issued      == {tok \in Token : minted[tok] # NoEntry}
Lapsed(tok) == now > minted[tok].wall + TTL

\* resolve accepts exactly the tokens that were issued, never refused or revoked
\* before, and whose lifetime on the wall clock is not over.  So a token once
\* refused stays dead although the clock can be put back, and one that was
\* never presented while expired does come back to life with the clock.
AcceptsExactly ==
  \A tok \in Token :
    Accepts(tok) <=> tok \in Issued \ refused /\ ~Lapsed(tok)

\* A token is only ever accepted as the identity it was issued for, and for no
\* longer in TRUE time than its TTL plus whatever the wall clock was put back
\* while it lived.
LifetimeBound ==
  \A tok \in Token : Accepts(tok) =>
    /\ tokens[tok].identity = minted[tok].identity
    /\ elapsed - minted[tok].time <= TTL + (setback - minted[tok].setback)

\* The two numbers of /metrics partition what the store holds: "active" counts
\* exactly the tokens a request could still use, "expired" the ones issued,
\* lapsed and never presented since, the whole of what the process retains.
StatsHonest ==
  /\ Active  = {tok \in Issued \ refused : ~Lapsed(tok)}
  /\ Expired = {tok \in Issued \ refused : Lapsed(tok)}
  /\ Stats.total = Stats.active + Stats.expired

\* No call takes somebody else's token away: what a step forgets is one token,
\* the one presented after its expiry or revoked, and every other entry stays.
OnlyPresentedForgotten ==
  [][\A tok \in Held : tokens'[tok] = NoEntry =>
        /\ tok \in refused'
        /\ Held \ {tok} \subseteq {t \in Token : tokens'[t] # NoEntry}]_vars
=============================================================================
