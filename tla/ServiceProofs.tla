--------------------------- MODULE ServiceProofs ---------------------------
(***************************************************************************)
(* In four parts:                                                          *)
(*   - what ClientIp's resolution returns, for headers and chains of any   *)
(*     length;                                                             *)
(*   - TypeOK, SourceIsClient and ReadyWasTrue of Service;                 *)
(*   - what a fold yields, for a page of /metrics and for a .env file;     *)
(*   - PageComplete and BootsAsConfigured, which rest on the third.        *)
(*                                                                         *)
(* ReadyWasTrue is about an answer given; IInv follows what it rests on:   *)
(* while a /readyz is in progress, seen holds every peer as it is now, so  *)
(* what a check reads of up is in seen for good.  Configured follows the   *)
(* environment from the start of the process through the file that is      *)
(* read, and the identity from there.                                      *)
(***************************************************************************)
EXTENDS Service, SequenceTheorems, FiniteSetTheorems, WellFoundedInduction, TLAPS

\* The right-most member of a set of integers that has one that none exceeds.
LEMMA RightMostIs ==
  ASSUME NEW S, NEW m \in S, S \subseteq Int, \A i \in S : i <= m
  PROVE  RightMost(S) = m
<1>1. \E i \in S : \A j \in S : j <= i
  OBVIOUS
<1>2. /\ RightMost(S) \in S
      /\ \A j \in S : j <= RightMost(S)
  BY <1>1 DEF RightMost
<1>3. RightMost(S) \in Int /\ m \in Int /\ m <= RightMost(S) /\ RightMost(S) <= m
  BY <1>2
<1> QED
  BY <1>3

\* A peer that is no trusted proxy is the client, whatever it says of itself.
LEMMA DirectPeer ==
  ASSUME NEW nets, nets # {}, NEW peer, peer \notin nets, NEW hops
  PROVE  ResolveClientIp(nets, peer, hops) = peer
BY DEF ResolveClientIp

\* The length that SubSeqProperties gives to all but the last of n.
LEMMA AllButOne ==
  ASSUME NEW n \in Nat, n > 0
  PROVE  (IF 1 <= n - 1 THEN n - 1 - 1 + 1 ELSE 0) = n - 1
OBVIOUS

\* The hops that a chain of trusted proxies reports: what the client sent, then the
\* client, then proxies only.
LEMMA HopsOfChain ==
  ASSUME NEW nets, NEW Address, nets \subseteq Address, NEW client \in Address, NEW sent \in Seq(Address),
         NEW proxies \in Seq(nets), proxies # <<>>
  PROVE  /\ Hops(sent, client, proxies) \in Seq(Address)
         /\ Len(sent) + 1 \in DOMAIN Hops(sent, client, proxies)
         /\ Hops(sent, client, proxies)[Len(sent) + 1] = client
         /\ \A i \in DOMAIN Hops(sent, client, proxies) :
              i > Len(sent) + 1 => Hops(sent, client, proxies)[i] \in nets
<1> DEFINE begin == sent \o <<client>>
           rest == SubSeq(proxies, 1, Len(proxies) - 1)
           hops == Hops(sent, client, proxies)
<1>1. Len(proxies) \in Nat /\ Len(proxies) > 0
  OBVIOUS
<1>2. /\ begin \in Seq(Address) /\ Len(begin) = Len(sent) + 1
      /\ begin[Len(sent) + 1] = client
  OBVIOUS
<1>3. /\ rest \in Seq(nets) /\ Len(rest) = Len(proxies) - 1
  <2>1. \A i \in 1 .. Len(proxies) - 1 : proxies[i] \in nets
    BY <1>1
  <2>2. Len(proxies) - 1 \in Int /\ Len(proxies) - 1 >= 0
    BY <1>1
  <2>3. /\ rest \in Seq(nets)
        /\ Len(rest) = IF 1 <= Len(proxies) - 1 THEN Len(proxies) - 1 - 1 + 1 ELSE 0
    BY <2>1, <2>2, SubSeqProperties
  <2> HIDE DEF rest
  <2>4. Len(rest) = Len(proxies) - 1
    BY <1>1, <2>3, AllButOne
  <2> QED
    BY <2>3, <2>4
<1>4. hops = begin \o rest
  BY DEF Hops
<1> HIDE DEF begin, rest, hops
<1>5. rest \in Seq(Address)
  BY <1>3
<1>6. /\ hops \in Seq(Address)
      /\ Len(hops) = Len(begin) + Len(rest)
      /\ \A i \in 1 .. Len(begin) : hops[i] = begin[i]
      /\ \A i \in Len(begin) + 1 .. Len(hops) : hops[i] = rest[i - Len(begin)]
  <2>1. /\ begin \o rest \in Seq(Address)
        /\ Len(begin \o rest) = Len(begin) + Len(rest)
        /\ \A i \in 1 .. Len(begin) + Len(rest) :
             (begin \o rest)[i] = IF i <= Len(begin) THEN begin[i] ELSE rest[i - Len(begin)]
    BY <1>2, <1>5, ConcatProperties
  <2>2. Len(begin) \in Nat /\ Len(rest) \in Nat
    BY <1>2, <1>5
  <2> QED
    BY <1>4, <2>1, <2>2
<1>7. \A i \in Len(begin) + 1 .. Len(hops) : i - Len(begin) \in 1 .. Len(rest)
  BY <1>2, <1>3, <1>6
<1>8. \A j \in 1 .. Len(rest) : rest[j] \in nets
  BY <1>3
<1>9. \A i \in DOMAIN hops : i > Len(sent) + 1 => hops[i] \in nets
  <2> SUFFICES ASSUME NEW i \in DOMAIN hops, i > Len(sent) + 1
               PROVE  hops[i] \in nets
    OBVIOUS
  <2>1. i \in Len(begin) + 1 .. Len(hops)
    <3>1. /\ Len(sent) \in Nat /\ Len(begin) = Len(sent) + 1 /\ i \in Int /\ i <= Len(hops)
          /\ Len(hops) \in Nat
      BY <1>2, <1>6
    <3> QED
      BY <3>1
  <2>2. i - Len(begin) \in 1 .. Len(rest) /\ hops[i] = rest[i - Len(begin)]
    BY <1>6, <1>7, <2>1
  <2> QED
    BY <1>8, <2>2
<1>10. Len(sent) + 1 \in DOMAIN hops /\ hops[Len(sent) + 1] = client
  BY <1>1, <1>2, <1>3, <1>6
<1> QED
  BY <1>6, <1>9, <1>10 DEF hops

\* Whatever header a client outside the trusted networks sends, and however many
\* trusted proxies it comes through, its own address is the one resolved.
THEOREM ClientResolved ==
  ASSUME NEW nets, nets # {}, NEW Address, nets \subseteq Address, NEW client \in Address,
         client \notin nets, NEW sent \in Seq(Address), NEW proxies \in Seq(nets)
  PROVE  ResolveClientIp(nets, Peer(client, proxies), Hops(sent, client, proxies)) = client
<1>1. CASE proxies = <<>>
  BY <1>1, DirectPeer DEF Peer
<1>2. CASE proxies # <<>>
  <2>1. Peer(client, proxies) \in nets
    BY <1>2 DEF Peer
  <2>2. /\ Hops(sent, client, proxies) \in Seq(Address)
        /\ Len(sent) + 1 \in DOMAIN Hops(sent, client, proxies)
        /\ Hops(sent, client, proxies)[Len(sent) + 1] = client
        /\ \A i \in DOMAIN Hops(sent, client, proxies) :
             i > Len(sent) + 1 => Hops(sent, client, proxies)[i] \in nets
    BY <1>2, HopsOfChain
  <2> DEFINE hops == Hops(sent, client, proxies)
             peer == Peer(client, proxies)
             at == Len(sent) + 1
  <2> HIDE DEF hops, peer
  <2>3. /\ at \in Outside(nets, hops)
        /\ Outside(nets, hops) \subseteq Int
        /\ \A i \in Outside(nets, hops) : i <= at
    BY <2>2 DEF Outside, hops
  <2>4. RightMost(Outside(nets, hops)) = at
    BY <2>3, RightMostIs
  <2>5. ResolveClientIp(nets, peer, hops) = hops[RightMost(Outside(nets, hops))]
    BY <2>1, <2>3 DEF ResolveClientIp, peer
  <2> QED
    BY <2>2, <2>4, <2>5 DEF hops, peer
<1> QED
  BY <1>1, <1>2
-----------------------------------------------------------------------------
RequestSound ==
  request # None =>
    life = "http" /\ (Trusted # {} => request.source = request.client)

Awaits(p) == probe[p] # None /\ probe[p].path = "readyz"

\* What a /readyz has seen includes what is so now, ...
SeenSound == \A p \in Prober : Awaits(p) => \A d \in Peers : Saw(p, d, up[d])

\* ... and what it found of the core and of the directory; it is not answered yet.
ChecksSound ==
  \A p \in Prober : probe[p] # None =>
    /\ answer[p] = None
    /\ probe[p].phase \in {"core_done", "ldap", "ldap_done"} => Saw(p, "core", probe[p].core)
    /\ probe[p].phase = "ldap_done" => Saw(p, "primary", probe[p].ldap)

IInv == TypeOK /\ RequestSound /\ SeenSound /\ ChecksSound /\ ReadyWasTrue

\* A list of one, or none, has no empty member.
LEMMA ListedNotEmpty == ASSUME NEW val PROVE "" \notin Listed(val)
BY Zenon DEF Listed

\* The lists of the settings have no empty member, whatever the environment.
LEMMA SettingsOK == ASSUME NEW env
  PROVE "" \notin Config(env).allowlist \cup ServicePrincipals(Config(env))
<1>1. /\ Config(env).allowlist = Listed(Env(env, "MCP_SUBTREE_ALLOWLIST", ""))
      /\ Config(env).service_principals = Listed(Env(env, "FILEENGINE_SERVICE_PRINCIPALS", ""))
  BY Zenon DEF Config
<1> QED
  BY <1>1, ListedNotEmpty, Zenon DEF ServicePrincipals

LEMMA Initially == Init => IInv
<1> SUFFICES ASSUME Init PROVE IInv
  OBVIOUS
<1>1. TypeOK
  <2>1. "" \notin config.allowlist \cup ServicePrincipals(config)
    BY SettingsOK DEF config
  <2> QED
    BY <2>1 DEF Init, TypeOK, Life
<1>2. RequestSound /\ SeenSound /\ ChecksSound /\ ReadyWasTrue
  BY DEF Init, RequestSound, SeenSound, ChecksSound, ReadyWasTrue, Awaits
<1> QED
  BY <1>1, <1>2 DEF IInv

\* No step makes an environment with an empty member in a list.
LEMMA ListsOK == "" \notin config'.allowlist \cup ServicePrincipals(config')
BY SettingsOK DEF config

\* The process coming up has answered nobody yet: what is on its way is untouched.
LEMMA BootStep == ASSUME IInv, Boot PROVE IInv'
<1>1. UNCHANGED <<up, probe, answer, seen>> /\ request' = request /\ life # "http"
  BY DEF Boot, Load, Verified, NotVerified, Resolved, Bound, BindFails, ResolveRaises, Start, serving
<1>2. life' \in Life
  <2>1. CASE Load
    BY <2>1 DEF Load, Life
  <2>2. CASE Verified \/ NotVerified \/ Bound \/ BindFails \/ Resolved \/ ResolveRaises
    BY <2>2 DEF Verified, NotVerified, Bound, BindFails, Resolved, ResolveRaises, Life
  <2>3. CASE Start
    BY <2>3 DEF Start, Life, Transport
  <2> QED
    BY <2>1, <2>2, <2>3 DEF Boot
<1>3. identity' = None \/ identity'.roles \subseteq Role
  <2>1. CASE Resolved
    <3>1. PICK known \in BOOLEAN, roles \in SUBSET Role :
            identity' = IF known /\ (roles # {} \/ Issued[config.mcp_key] \in ServicePrincipals(config))
                        THEN [user |-> Issued[config.mcp_key], tenant |-> config.tenant, roles |-> roles]
                        ELSE None
      BY <2>1 DEF Resolved
    <3>2. \/ identity' = None
          \/ identity' = [user |-> Issued[config.mcp_key], tenant |-> config.tenant, roles |-> roles]
      BY <3>1
    <3> QED
      BY <3>2
  <2>2. CASE ~Resolved
    <3>1. identity' = identity
      BY <2>2 DEF Boot, Load, Verified, NotVerified, Bound, BindFails, ResolveRaises, Start
    <3> QED
      BY <3>1 DEF IInv, TypeOK
  <2> QED
    BY <2>1, <2>2
<1>4. request = None
  BY <1>1 DEF IInv, TypeOK
<1>5. TypeOK'
  <2>1. target' \in {"primary", "replica"}
    BY DEF Boot, Load, Verified, NotVerified, Bound, BindFails, Resolved, ResolveRaises, Start,
           IInv, TypeOK
  <2> QED
    BY <1>1, <1>2, <1>3, <1>4, <2>1, ListsOK DEF IInv, TypeOK
<1>6. RequestSound'
  BY <1>1, <1>4 DEF RequestSound
<1>7. SeenSound' /\ ChecksSound' /\ ReadyWasTrue'
  BY <1>1 DEF IInv, SeenSound, ChecksSound, ReadyWasTrue, Awaits, Saw
<1> QED
  BY <1>5, <1>6, <1>7 DEF IInv

\* Once it serves, the process keeps its environment.
LEMMA TrustedKept == ASSUME UNCHANGED boot PROVE Trusted' = Trusted
BY DEF boot, Trusted

LEMMA ToolStep ==
  ASSUME IInv,
         \/ \E client \in Untrusted, proxies \in Routes :
              \E sent \in {<<>>} \cup {<<a>> : a \in Addr} : ToolRequest(client, sent, proxies)
         \/ ToolDone
  PROVE  IInv'
<1>1. UNCHANGED <<boot, up, probe, answer, seen>>
  BY DEF ToolRequest, ToolDone
<1>2. request' # None =>
        life = "http" /\ (Trusted # {} => request'.source = request'.client)
  <2>1. CASE ToolDone
    BY <2>1 DEF ToolDone
  <2>2. ASSUME NEW client \in Untrusted, NEW proxies \in Routes,
               NEW sent \in {<<>>} \cup {<<a>> : a \in Addr},
               ToolRequest(client, sent, proxies)
        PROVE  life = "http" /\ (Trusted # {} => request'.source = request'.client)
    <3> DEFINE Address == Addr \cup Trusted
    <3>1. /\ life = "http"
          /\ request'.client = client
          /\ request'.source = ResolveClientIp(Trusted, Peer(client, proxies),
                                               Hops(sent, client, proxies))
      BY <2>2 DEF ToolRequest, Free
    <3>2. client \in Address /\ client \notin Trusted /\ Trusted \subseteq Address
      BY DEF Untrusted
    <3>3. sent \in Seq(Address)
      <4>1. CASE sent = <<>>
        BY <4>1
      <4>2. CASE \E a \in Addr : sent = <<a>>
        BY <4>2
      <4> QED
        BY <4>1, <4>2
    <3>4. proxies \in Seq(Trusted)
      <4>1. CASE proxies = <<>>
        BY <4>1
      <4>2. CASE \E e \in Trusted : proxies = <<e>>
        BY <4>2
      <4>3. CASE \E e, f \in Trusted : proxies = <<e, f>>
        BY <4>3
      <4> QED
        BY <4>1, <4>2, <4>3 DEF Routes
    <3> HIDE DEF Address
    <3> QED
      BY <3>1, <3>2, <3>3, <3>4, ClientResolved
  <2> QED
    BY <2>1, <2>2
<1>3. life' = life /\ target' = target /\ identity' = identity /\ up' = up
  BY <1>1 DEF boot
<1>4. TypeOK'
  BY <1>1, <1>2, <1>3, ListsOK DEF IInv, TypeOK
<1>5. RequestSound'
  BY <1>1, <1>2, <1>3, TrustedKept DEF RequestSound
<1>6. SeenSound' /\ ChecksSound' /\ ReadyWasTrue'
  BY <1>1 DEF IInv, SeenSound, ChecksSound, ReadyWasTrue, Awaits, Saw
<1> QED
  BY <1>4, <1>5, <1>6 DEF IInv

\* An answer is recorded and the probe is over.
LEMMA ReplyStep ==
  ASSUME IInv, NEW p \in Prober, NEW code \in Code, NEW page, probe[p] # None,
         Reply(p, code, page),
         probe[p].path = "readyz" =>
           /\ code = 200 => Saw(p, "core", TRUE) /\ Saw(p, "primary", TRUE)
           /\ code = 503 => Saw(p, "core", FALSE) \/ Saw(p, "primary", FALSE)
  PROVE  IInv'
<1>1. UNCHANGED <<boot, up, request, seen>>
  BY DEF Reply
<1>2. /\ probe' = [probe EXCEPT ![p] = None]
      /\ answer' = [answer EXCEPT ![p] = [path |-> probe[p].path, code |-> code, page |-> page]]
  BY DEF Reply
<1>3. probe[p].path \in Path
  BY DEF IInv, TypeOK, Probe
<1>4. /\ DOMAIN answer' = Prober
      /\ answer'[p].path = probe[p].path /\ answer'[p].code = code
      /\ \A q \in Prober \ {p} : answer'[q] = answer[q]
  BY <1>2 DEF IInv, TypeOK
<1>5. /\ probe' \in [Prober -> Probe \cup {None}]
      /\ probe'[p] = None /\ \A q \in Prober \ {p} : probe'[q] = probe[q]
  BY <1>2 DEF IInv, TypeOK
<1>6. life' = life /\ target' = target /\ identity' = identity /\ up' = up /\ request' = request /\ seen' = seen
  BY <1>1 DEF boot
<1>7. TypeOK'
  BY <1>3, <1>4, <1>5, <1>6, ListsOK DEF IInv, TypeOK
<1>8. RequestSound'
  BY <1>1, <1>6, TrustedKept DEF IInv, RequestSound
<1>9. SeenSound' /\ ChecksSound'
  BY <1>4, <1>5, <1>6 DEF IInv, SeenSound, ChecksSound, Awaits, Saw
<1>10. ReadyWasTrue'
  BY <1>4, <1>5, <1>6 DEF IInv, ReadyWasTrue, Saw
<1> QED
  BY <1>7, <1>8, <1>9, <1>10 DEF IInv

\* A /readyz moves on, with what its checks found so far.
LEMMA GoesStep ==
  ASSUME IInv, NEW p \in Prober, NEW to \in Probe, probe[p] # None, Goes(p, to),
         probe[p].path = "readyz", to.path = "readyz",
         to.phase \in {"core_done", "ldap", "ldap_done"} => Saw(p, "core", to.core),
         to.phase = "ldap_done" => Saw(p, "primary", to.ldap)
  PROVE  IInv'
<1>1. UNCHANGED <<boot, up, request, answer, seen>> /\ probe' = [probe EXCEPT ![p] = to]
  BY DEF Goes
<1>2. /\ probe' \in [Prober -> Probe \cup {None}]
      /\ probe'[p] = to /\ \A q \in Prober \ {p} : probe'[q] = probe[q]
  BY <1>1 DEF IInv, TypeOK
<1>3. /\ life' = life /\ target' = target /\ identity' = identity /\ up' = up /\ request' = request
      /\ seen' = seen /\ answer' = answer
  BY <1>1 DEF boot
<1>4. TypeOK'
  BY <1>2, <1>3, ListsOK DEF IInv, TypeOK
<1>5. RequestSound'
  BY <1>1, <1>3, TrustedKept DEF IInv, RequestSound
<1>6. SeenSound' /\ ChecksSound'
  BY <1>2, <1>3 DEF IInv, SeenSound, ChecksSound, Awaits, Saw
<1>7. ReadyWasTrue'
  BY <1>2, <1>3 DEF IInv, ReadyWasTrue, ChecksSound, Saw
<1> QED
  BY <1>4, <1>5, <1>6, <1>7 DEF IInv

LEMMA ArriveStep ==
  ASSUME IInv, NEW p \in Prober, NEW path \in Path, NEW addr \in Addr, Arrive(p, path, addr)
  PROVE  IInv'
<1> DEFINE new == [path |-> path, allowed |-> MayMonitor(addr), phase |-> "arrived",
                   core |-> FALSE, ldap |-> FALSE]
           first == IF path = "readyz" THEN {<<d, up[d]>> : d \in Peers} ELSE {}
<1>1. UNCHANGED <<boot, up, request>> /\ life = "http"
  BY DEF Arrive
<1>2. new \in Probe /\ new.path = path /\ new.phase = "arrived"
  BY DEF Probe, Phase, MayMonitor
<1>3. /\ first \subseteq Peers \X BOOLEAN
      /\ path = "readyz" => \A d \in Peers : <<d, up[d]>> \in first
  <2>1. \A d \in Peers : up[d] \in BOOLEAN
    BY DEF IInv, TypeOK
  <2>2. CASE path = "readyz"
    <3>1. first = {<<d, up[d]>> : d \in Peers}
      BY <2>2
    <3> HIDE DEF first
    <3> QED
      BY <2>1, <3>1
  <2>3. CASE path # "readyz"
    BY <2>3
  <2> QED
    BY <2>2, <2>3
<1>4. /\ probe' = [probe EXCEPT ![p] = new]
      /\ answer' = [answer EXCEPT ![p] = None]
      /\ seen' = [seen EXCEPT ![p] = first]
  BY DEF Arrive
<1> HIDE DEF new, first
<1>5. /\ probe' \in [Prober -> Probe \cup {None}]
      /\ probe'[p] = new /\ \A q \in Prober \ {p} : probe'[q] = probe[q]
  BY <1>2, <1>4 DEF IInv, TypeOK
<1>6. /\ DOMAIN answer' = Prober
      /\ answer'[p] = None /\ \A q \in Prober \ {p} : answer'[q] = answer[q]
  BY <1>4 DEF IInv, TypeOK
<1>7. /\ seen' \in [Prober -> SUBSET (Peers \X BOOLEAN)]
      /\ seen'[p] = first /\ \A q \in Prober \ {p} : seen'[q] = seen[q]
  BY <1>3, <1>4 DEF IInv, TypeOK
<1>8. life' = life /\ target' = target /\ identity' = identity /\ up' = up /\ request' = request
  BY <1>1 DEF boot
<1>9. TypeOK'
  BY <1>2, <1>5, <1>6, <1>7, <1>8, ListsOK DEF IInv, TypeOK
<1>10. RequestSound'
  BY <1>1, <1>8, TrustedKept DEF IInv, RequestSound
<1>11. SeenSound' /\ ChecksSound'
  BY <1>2, <1>3, <1>5, <1>6, <1>7, <1>8 DEF IInv, SeenSound, ChecksSound, Awaits, Saw
<1>12. ReadyWasTrue'
  BY <1>5, <1>6, <1>7 DEF IInv, ReadyWasTrue, Saw
<1> QED
  BY <1>9, <1>10, <1>11, <1>12 DEF IInv

\* A probe that holds the loop, or whose thread is done, is answered or moves on.
LEMMA ProbeStep ==
  ASSUME IInv, NEW p \in Prober, OnLoop(p) \/ Checks(p)
  PROVE  IInv'
<1>1. CASE Forbidden(p)
  <2>1. probe[p] # None /\ Reply(p, 403, None) /\ 403 \in Code
    BY <1>1 DEF Forbidden, At, Code
  <2>2. probe[p].path = "readyz" =>
          /\ 403 = 200 => Saw(p, "core", TRUE) /\ Saw(p, "primary", TRUE)
          /\ 403 = 503 => Saw(p, "core", FALSE) \/ Saw(p, "primary", FALSE)
    OBVIOUS
  <2> QED
    BY <2>1, <2>2, ReplyStep, Zenon
<1>2. CASE Healthz(p)
  <2>1. /\ probe[p] # None /\ Reply(p, 200, None) /\ 200 \in Code
        /\ probe[p].path = "healthz"
    BY <1>2 DEF Healthz, Begins, At, Code
  <2> QED
    BY <2>1, ReplyStep
<1>3. CASE Metrics(p)
  <2>1. probe[p] # None /\ 200 \in Code /\ probe[p].path = "metrics"
    BY <1>3 DEF Metrics, Begins, At, Code
  <2>2. PICK page : Reply(p, 200, page)
    BY <1>3 DEF Metrics
  <2> QED
    BY <2>1, <2>2, ReplyStep
<1>4. ASSUME Readyz(p) \/ AskLdap(p) \/ CheckCore(p) \/ CheckLdap(p) PROVE IInv'
  <2>1. probe[p] # None /\ probe[p] \in Probe /\ probe[p].path = "readyz"
    BY <1>4 DEF Readyz, AskLdap, CheckCore, CheckLdap, Begins, At, IInv, TypeOK
  <2>2. Saw(p, "core", up["core"]) /\ Saw(p, "primary", up["primary"])
    BY <2>1 DEF IInv, SeenSound, Awaits, Peers
  <2>3. up["core"] \in BOOLEAN /\ up["primary"] \in BOOLEAN
    BY DEF IInv, TypeOK, Peers
  <2>4. CASE Readyz(p)
    <3> DEFINE to == [probe[p] EXCEPT !.phase = "core"]
    <3>1. to \in Probe /\ to.path = "readyz" /\ to.phase = "core"
      BY <2>1 DEF Probe, Phase
    <3>2. Goes(p, to)
      BY <2>4 DEF Readyz
    <3> HIDE DEF to
    <3> QED
      BY <2>1, <3>1, <3>2, GoesStep
  <2>5. CASE AskLdap(p)
    <3> DEFINE to == [probe[p] EXCEPT !.phase = "ldap"]
    <3>1. to \in Probe /\ to.path = "readyz" /\ to.phase = "ldap" /\ to.core = probe[p].core
      BY <2>1 DEF Probe, Phase
    <3>2. Goes(p, to) /\ Saw(p, "core", probe[p].core)
      BY <2>5 DEF AskLdap, At, IInv, ChecksSound
    <3> HIDE DEF to
    <3> QED
      BY <2>1, <3>1, <3>2, GoesStep
  <2>6. CASE CheckCore(p)
    <3> DEFINE to == [probe[p] EXCEPT !.phase = "core_done", !.core = up["core"]]
    <3>1. to \in Probe /\ to.path = "readyz" /\ to.phase = "core_done" /\ to.core = up["core"]
      BY <2>1, <2>3 DEF Probe, Phase
    <3>2. Goes(p, to)
      BY <2>6 DEF CheckCore
    <3> HIDE DEF to
    <3> QED
      BY <2>1, <2>2, <3>1, <3>2, GoesStep
  <2>7. CASE CheckLdap(p)
    <3> DEFINE to == [probe[p] EXCEPT !.phase = "ldap_done", !.ldap = up["primary"]]
    <3>1. /\ to \in Probe /\ to.path = "readyz" /\ to.phase = "ldap_done"
          /\ to.core = probe[p].core /\ to.ldap = up["primary"]
      BY <2>1, <2>3 DEF Probe, Phase
    <3>2. Goes(p, to) /\ Saw(p, "core", probe[p].core)
      BY <2>7 DEF CheckLdap, At, IInv, ChecksSound
    <3> HIDE DEF to
    <3> QED
      BY <2>1, <2>2, <3>1, <3>2, GoesStep
  <2> QED
    BY <1>4, <2>4, <2>5, <2>6, <2>7
<1>5. CASE Conclude(p)
  <2> DEFINE code == IF probe[p].core /\ probe[p].ldap THEN 200 ELSE 503
  <2>1. probe[p] # None /\ Reply(p, code, None) /\ code \in Code
    BY <1>5 DEF Conclude, At, Code
  <2>2. /\ Saw(p, "core", probe[p].core) /\ Saw(p, "primary", probe[p].ldap)
        /\ probe[p].core \in BOOLEAN /\ probe[p].ldap \in BOOLEAN
    BY <1>5 DEF Conclude, At, IInv, ChecksSound, TypeOK, Probe
  <2>3. /\ code = 200 => Saw(p, "core", TRUE) /\ Saw(p, "primary", TRUE)
        /\ code = 503 => Saw(p, "core", FALSE) \/ Saw(p, "primary", FALSE)
    <3>1. code = 200 => probe[p].core = TRUE /\ probe[p].ldap = TRUE
      BY <2>2
    <3>2. code = 503 => probe[p].core = FALSE \/ probe[p].ldap = FALSE
      BY <2>2
    <3>3. ASSUME NEW d, NEW b, Saw(p, d, b) PROVE b = TRUE => Saw(p, d, TRUE)
      BY <3>3, Zenon
    <3>4. ASSUME NEW d, NEW b, Saw(p, d, b) PROVE b = FALSE => Saw(p, d, FALSE)
      BY <3>4, Zenon
    <3> HIDE DEF code
    <3>5. code = 200 => Saw(p, "core", TRUE)
      BY <2>2, <3>1, <3>3
    <3>6. code = 200 => Saw(p, "primary", TRUE)
      BY <2>2, <3>1, <3>3
    <3>7. probe[p].core = FALSE => Saw(p, "core", FALSE)
      BY <2>2, <3>4
    <3>8. probe[p].ldap = FALSE => Saw(p, "primary", FALSE)
      BY <2>2, <3>4
    <3> QED
      BY <3>2, <3>5, <3>6, <3>7, <3>8, Zenon
  <2> HIDE DEF code
  <2> QED
    BY <2>1, <2>3, ReplyStep
<1> QED
  BY <1>1, <1>2, <1>3, <1>4, <1>5 DEF OnLoop, Checks

\* A peer goes down or comes back, and every /readyz in progress has seen it.
LEMMA ChangeStep ==
  ASSUME IInv, NEW d \in Peers, Changes(d)
  PROVE  IInv'
<1>1. UNCHANGED <<boot, request, probe, answer>>
  BY DEF Changes
<1>2. /\ up' \in [Peers -> BOOLEAN] /\ \A e \in Peers \ {d} : up'[e] = up[e]
  BY DEF Changes, IInv, TypeOK
<1>3. seen' \in [Prober -> SUBSET (Peers \X BOOLEAN)]
  <2>1. <<d, up'[d]>> \in Peers \X BOOLEAN
    BY <1>2
  <2> QED
    BY <2>1 DEF Changes, IInv, TypeOK
<1>4. \A p \in Prober : /\ seen[p] \subseteq seen'[p]
                        /\ Awaits(p) => <<d, up'[d]>> \in seen'[p]
                        /\ ~Awaits(p) => seen'[p] = seen[p]
  BY DEF Changes, Awaits, IInv, TypeOK
<1>5. life' = life /\ target' = target /\ identity' = identity /\ request' = request
      /\ probe' = probe /\ answer' = answer
  BY <1>1 DEF boot
<1>6. TypeOK'
  BY <1>2, <1>3, <1>5, ListsOK DEF IInv, TypeOK
<1>7. RequestSound'
  BY <1>1, <1>5, TrustedKept DEF IInv, RequestSound
<1>8. SeenSound' /\ ChecksSound'
  BY <1>2, <1>4, <1>5 DEF IInv, SeenSound, ChecksSound, Awaits, Saw
<1>9. ReadyWasTrue'
  BY <1>4, <1>5 DEF IInv, ReadyWasTrue, Saw
<1> QED
  BY <1>6, <1>7, <1>8, <1>9 DEF IInv

LEMMA Inductive == Spec => []IInv
<1>1. IInv /\ [Next]_vars => IInv'
  <2>1. CASE UNCHANGED vars
    <3>1. UNCHANGED <<boot, up, request, probe, answer, seen>>
      BY <2>1 DEF vars, serving
    <3>2. life' = life /\ target' = target /\ identity' = identity
      BY <3>1 DEF boot
    <3>3. IInv => TypeOK'
      BY <3>1, <3>2, ListsOK DEF IInv, TypeOK
    <3>4. IInv => RequestSound'
      BY <3>1, <3>2, TrustedKept DEF IInv, RequestSound
    <3>5. IInv => SeenSound' /\ ChecksSound' /\ ReadyWasTrue'
      BY <3>1 DEF IInv, SeenSound, ChecksSound, ReadyWasTrue, Awaits, Saw
    <3> QED
      BY <3>3, <3>4, <3>5 DEF IInv
  <2>2. IInv /\ Next => IInv' \/ UNCHANGED vars
    BY BootStep, ToolStep, ArriveStep, ProbeStep, ChangeStep DEF Next
  <2> QED
    BY <2>1, <2>2
<1> QED
  BY <1>1, Initially, PTL DEF Spec

\* Every variable keeps its type; no list of the settings has an empty member.
THEOREM TypeCorrect == Spec => []TypeOK
<1>1. IInv => TypeOK
  BY DEF IInv
<1> QED
  BY <1>1, Inductive, PTL

\* What /readyz answers was so during the probe, however the peers come and go
\* between its two checks, and whatever else holds the loop meanwhile.
THEOREM ReadyTrue == Spec => []ReadyWasTrue
<1>1. IInv => ReadyWasTrue
  BY DEF IInv
<1> QED
  BY <1>1, Inductive, PTL

\* The address audited for a request is its client's, for any networks, any chain of
\* trusted proxies that Next allows and any header.
THEOREM SourceResolved == Spec => []SourceIsClient
<1>1. IInv => SourceIsClient
  BY DEF IInv, RequestSound, SourceIsClient
<1> QED
  BY <1>1, Inductive, PTL
-----------------------------------------------------------------------------
\* FoldLeft is the value of a function chosen to satisfy an equation.  Such a function
\* exists: on the sequences up to a length, by looking at the least length for which
\* there were none.  The accumulators from one item to the next are then a trace.

\* What numbers there are have a least.
LEMMA LeastExists ==
  ASSUME NEW S, S \subseteq Nat, S # {}
  PROVE  \E n \in S : \A m \in S : n <= m
<1>1. PICK n \in S : \A m \in S : ~(<<m, n>> \in OpToRel(<, Nat))
  <2>1. \E n \in S : \A m \in S : ~(<<m, n>> \in OpToRel(<, Nat))
    BY NatLessThanWellFounded, WFMin, Zenon
  <2> QED
    BY <2>1
<1>2. \A m \in S : ~(m < n)
  BY <1>1, Zenon DEF OpToRel
<1> QED
  BY <1>2

\* What holds at 0 and from one number to the next holds up to n.
LEMMA StepByStep ==
  ASSUME NEW n \in Nat, NEW S, 0 \in S, \A k \in 1..n : k - 1 \in S => k \in S
  PROVE  \A k \in 0..n : k \in S
<1> DEFINE T == {k \in 0..n : k \notin S}
<1> SUFFICES ASSUME T # {} PROVE FALSE
  OBVIOUS
<1>1. PICK k \in T : \A j \in T : k <= j
  <2>1. T \subseteq Nat
    OBVIOUS
  <2> HIDE DEF T
  <2> QED
    BY <2>1, LeastExists
<1>2. k \in 1..n /\ k - 1 \in 0..n /\ ~(k <= k - 1)
  OBVIOUS
<1> QED
  BY <1>1, <1>2

\* Max, which is chosen too, is the greatest of a set that has one ...
LEMMA MaxIs ==
  ASSUME NEW k \in Nat, NEW s \in SUBSET (1..k), k \in s
  PROVE  Max(s) = k
<1>1. \A y \in s : y \in Int /\ k >= y
  OBVIOUS
<1>2. Max(s) \in s /\ \A y \in s : Max(s) >= y
  BY <1>1, Zenon DEF Max
<1>3. Max(s) \in Int /\ k \in Int /\ Max(s) <= k /\ k <= Max(s)
  BY <1>1, <1>2
<1> QED
  BY <1>3

\* The items up to the k-th, without the last of them.
LEMMA WithoutLast ==
  ASSUME NEW k \in Nat, k # 0
  PROVE  Max(1..k) = k /\ (1..k) \ {Max(1..k)} = 1..k - 1
<1>1. k \in 1..k
  OBVIOUS
<1>2. Max(1..k) = k
  BY <1>1, MaxIs
<1> QED
  BY <1>2

\* ... and a set of items that is not empty has.
LEMMA MaxIn == ASSUME NEW n \in Nat, NEW s \in SUBSET (1..n), s # {} PROVE Max(s) \in 1..n
<1> DEFINE T == {n - y : y \in s}
<1>1. T \subseteq Nat /\ T # {}
  OBVIOUS
<1>2. PICK t \in T : \A u \in T : t <= u
  <2> HIDE DEF T
  <2> QED
    BY <1>1, LeastExists
<1>3. PICK x \in s : t = n - x
  OBVIOUS
<1>4. ASSUME NEW y \in s PROVE x >= y
  <2>1. n - y \in T /\ x \in Int /\ y \in Int
    OBVIOUS
  <2>2. n - x <= n - y
    BY <1>2, <1>3, <2>1
  <2> QED
    BY <2>1, <2>2
<1>5. Max(s) \in s
  BY <1>4, Zenon DEF Max
<1> QED
  BY <1>5

\* The equation by which FoldLeft is defined, of a step g on accumulators and items.
Folds(f, g, base, items, n) ==
  f = [s \in SUBSET (1..n) |->
         IF s = {} THEN base ELSE g[<<f[s \ {Max(s)}], items[Max(s)]>>]]

\* It has a solution.
LEMMA FoldExists ==
  ASSUME NEW A, NEW D, NEW g \in [A \X D -> A], NEW base \in A, NEW n \in Nat,
         NEW items \in [1..n -> D]
  PROVE  \E f \in [SUBSET (1..n) -> A] : Folds(f, g, base, items, n)
<1> DEFINE S == {k \in Nat : \E f \in [SUBSET (1..k) -> A] : Folds(f, g, base, items, k)}
<1>1. 0 \in S
  <2> DEFINE f == [s \in SUBSET (1..0) |-> base]
  <2>1. f \in [SUBSET (1..0) -> A]
    OBVIOUS
  <2>2. \A s \in SUBSET (1..0) : s = {}
    OBVIOUS
  <2>3. Folds(f, g, base, items, 0)
    BY <2>2 DEF Folds
  <2> QED
    BY <2>1, <2>3
<1>2. ASSUME NEW k \in 1..n, k - 1 \in S PROVE k \in S
  <2>1. PICK f \in [SUBSET (1..k - 1) -> A] : Folds(f, g, base, items, k - 1)
    BY <1>2
  <2> DEFINE h == [s \in SUBSET (1..k) |-> IF k \in s THEN g[<<f[s \ {k}], items[k]>>] ELSE f[s]]
  <2>2. \A s \in SUBSET (1..k) : s \ {k} \in SUBSET (1..k - 1)
    OBVIOUS
  <2>3. \A s \in SUBSET (1..k) : k \notin s => s \in SUBSET (1..k - 1)
    OBVIOUS
  <2>4. h \in [SUBSET (1..k) -> A]
    <3>1. ASSUME NEW s \in SUBSET (1..k) PROVE h[s] \in A
      <4>1. CASE k \in s
        <5>1. f[s \ {k}] \in A /\ items[k] \in D
          BY <2>2
        <5>2. g[<<f[s \ {k}], items[k]>>] \in A
          BY <5>1
        <5> QED
          BY <4>1, <5>2
      <4>2. CASE k \notin s
        BY <2>3, <4>2
      <4> QED
        BY <4>1, <4>2
    <3> QED
      BY <3>1
  <2>5. ASSUME NEW s \in SUBSET (1..k)
        PROVE  h[s] = IF s = {} THEN base ELSE g[<<h[s \ {Max(s)}], items[Max(s)]>>]
    <3>1. CASE k \in s
      <4>1. Max(s) = k
        BY <3>1, MaxIs
      <4>2. s \ {k} \in SUBSET (1..k) /\ k \notin s \ {k}
        OBVIOUS
      <4>3. h[s] = g[<<f[s \ {k}], items[k]>>] /\ h[s \ {k}] = f[s \ {k}]
        BY <3>1, <4>2
      <4> QED
        BY <3>1, <4>1, <4>3
    <3>2. CASE k \notin s
      <4>1. s \in SUBSET (1..k - 1) /\ s \ {Max(s)} \in SUBSET (1..k - 1)
        BY <2>3, <3>2
      <4>2. f[s] = IF s = {} THEN base ELSE g[<<f[s \ {Max(s)}], items[Max(s)]>>]
        BY <2>1, <4>1 DEF Folds
      <4>3. h[s] = f[s]
        BY <3>2
      <4>4. h[s \ {Max(s)}] = f[s \ {Max(s)}]
        <5>1. s \ {Max(s)} \in SUBSET (1..k) /\ k \notin s \ {Max(s)}
          BY <3>2
        <5> QED
          BY <5>1
      <4> QED
        BY <4>2, <4>3, <4>4
    <3> QED
      BY <3>1, <3>2
  <2> HIDE DEF h
  <2>6. Folds(h, g, base, items, k)
    <3>1. h = [s \in SUBSET (1..k) |-> h[s]]
      BY <2>4
    <3> QED
      BY <2>5, <3>1 DEF Folds
  <2> QED
    BY <2>4, <2>6
<1> HIDE DEF S
<1>3. \A k \in 0..n : k \in S
  BY <1>1, <1>2, StepByStep, Zenon
<1>4. n \in S
  BY <1>3
<1> QED
  BY <1>4 DEF S

-----------------------------------------------------------------------------
Label == {"", "version", "_service_metrics"} \cup ToSet(ThreadState)
Name ==
  {"fileengine_build_info", "process_resident_memory_bytes", "process_open_fds",
   "process_threads", "fileengine_threads", "fileengine_threads_not_waiting",
   "fileengine_uptime_seconds", "fileengine_collector_failed"} \cup ToSet(ServiceGauges)
Entry == [kind : {"family", "sample"}, name : Name, label : Label]
Page == [lines : Seq(Entry), declared : SUBSET Name]

LEMMA EmptyLabel == "" \in Label
BY Zenon DEF Label

LEMMA FamilyType == ASSUME NEW m \in Page, NEW name \in Name PROVE Family(m, name) \in Page
<1>1. [kind |-> "family", name |-> name, label |-> ""] \in Entry
  BY EmptyLabel, Zenon DEF Entry
<1>2. m.lines \in Seq(Entry) /\ m.declared \in SUBSET Name
  BY DEF Page
<1>3. Append(m.lines, [kind |-> "family", name |-> name, label |-> ""]) \in Seq(Entry)
  BY <1>1, <1>2, AppendProperties, Zenon
<1> DEFINE l == Append(m.lines, [kind |-> "family", name |-> name, label |-> ""])
<1>4. Family(m, name) = IF name \in m.declared THEN m ELSE [lines |-> l, declared |-> m.declared \cup {name}]
  BY DEF Family
<1> HIDE DEF l
<1>5. l \in Seq(Entry)
  BY <1>3 DEF l
<1>6. m.declared \cup {name} \in SUBSET Name
  BY <1>2
<1>7. [lines |-> l, declared |-> m.declared \cup {name}] \in Page
  BY <1>5, <1>6 DEF Page
<1> QED
  BY <1>4, <1>7

LEMMA SampleType ==
  ASSUME NEW m \in Page, NEW name \in Name, NEW label \in Label
  PROVE  /\ Sample(m, name, label) \in Page
         /\ Sample(m, name, label).lines =
              Append(m.lines, [kind |-> "sample", name |-> name, label |-> label])
         /\ Sample(m, name, label).declared = m.declared
<1> DEFINE line == [kind |-> "sample", name |-> name, label |-> label]
<1>1. line \in Entry
  BY DEF Entry
<1>2. m.lines \in Seq(Entry) /\ m.declared \in SUBSET Name
  BY DEF Page
<1>3. Append(m.lines, line) \in Seq(Entry)
  BY <1>1, <1>2, AppendProperties, Zenon
<1>4. Sample(m, name, label) = [m EXCEPT !.lines = Append(m.lines, line)]
  BY DEF Sample
<1> HIDE DEF line
<1>5. Sample(m, name, label) = [lines |-> Append(m.lines, line), declared |-> m.declared]
  BY <1>4 DEF Page
<1> QED
  BY <1>2, <1>3, <1>5 DEF Page, line

LEMMA GaugeType ==
  ASSUME NEW m \in Page, NEW name \in Name, NEW label \in Label
  PROVE  Gauge(m, name, label) \in Page
BY FamilyType, SampleType DEF Gauge

LEMMA GaugesSteps ==
  ASSUME NEW m \in Page, NEW names \in Seq(Name)
  PROVE  \E acc : /\ acc[0] = m /\ acc[Len(names)] = Gauges(m, names)
                  /\ \A k \in 1..Len(names) : acc[k] = Gauge(acc[k - 1], names[k], "")
<1> DEFINE n == Len(names)
           g == [x \in Page \X Name |-> Gauge(x[1], x[2], "")]
           Iterates(f) == f = [s \in SUBSET DOMAIN names |->
                                 IF s = {} THEN m
                                 ELSE Gauge(f[s \ {Max(s)}], names[Max(s)], "")]
<1>1. n \in Nat /\ DOMAIN names = 1..n /\ names \in [1..n -> Name]
  OBVIOUS
<1>2. g \in [Page \X Name -> Page]
  BY GaugeType, EmptyLabel, Zenon
<1>3. PICK f \in [SUBSET (1..n) -> Page] : Folds(f, g, m, names, n)
  <2> HIDE DEF n, g, Iterates
  <2> QED
    BY <1>1, <1>2, FoldExists, Zenon
<1>4. Iterates(f)
  <2>1. \A s \in SUBSET (1..n) : s # {} => Max(s) \in 1..n
    BY <1>1, MaxIn
  <2>2. ASSUME NEW s \in SUBSET (1..n), s # {}
        PROVE  g[<<f[s \ {Max(s)}], names[Max(s)]>>] = Gauge(f[s \ {Max(s)}], names[Max(s)], "")
    <3>1. f[s \ {Max(s)}] \in Page /\ names[Max(s)] \in Name
      BY <1>1, <2>1, <2>2
    <3> QED
      BY <3>1
  <2> QED
    BY <1>1, <1>3, <2>2, Zenon DEF Folds
<1>5. PICK h : Iterates(h) /\ Gauges(m, names) = h[1..n]
  <2>1. Gauges(m, names) = (CHOOSE h : Iterates(h))[DOMAIN names]
    BY DEF Gauges, FoldLeft, MapThenFoldSet
  <2> HIDE DEF Iterates
  <2> QED
    BY <1>1, <1>4, <2>1
<1> DEFINE acc == [k \in 0..n |-> h[1..k]]
<1>6. \A k \in 0..n : 1..k \in SUBSET DOMAIN names
  BY <1>1
<1>7. acc[0] = m
  <2>1. 1..0 = {} /\ acc[0] = h[1..0]
    BY <1>1
  <2>2. h[{}] = m
    BY <1>5, Zenon
  <2> QED
    BY <2>1, <2>2
<1>8. ASSUME NEW k \in 1..n PROVE acc[k] = Gauge(acc[k - 1], names[k], "")
  <2>1. /\ k \in 0..n /\ k - 1 \in 0..n /\ 1..k # {} /\ 1..k \in SUBSET DOMAIN names
        /\ Max(1..k) = k /\ (1..k) \ {Max(1..k)} = 1..k - 1
    <3>1. k \in Nat /\ k # 0 /\ k \in 0..n /\ k - 1 \in 0..n /\ 1..k # {}
      BY <1>1
    <3> QED
      BY <1>6, <3>1, WithoutLast
  <2>2. h[1..k] = IF 1..k = {} THEN m
                  ELSE Gauge(h[(1..k) \ {Max(1..k)}], names[Max(1..k)], "")
    BY <1>5, <2>1, Zenon
  <2>3. h[1..k] = Gauge(h[1..k - 1], names[k], "")
    BY <2>1, <2>2, Zenon
  <2>4. acc[k] = h[1..k] /\ acc[k - 1] = h[1..k - 1]
    BY <2>1
  <2> QED
    BY <2>3, <2>4, Zenon
<1>9. acc[n] = Gauges(m, names)
  <2>1. n \in 0..n
    BY <1>1
  <2>2. acc[n] = h[1..n]
    BY <2>1
  <2> QED
    BY <1>5, <2>2
<1> HIDE DEF acc
<1> QED
  BY <1>7, <1>8, <1>9, Zenon DEF n
\* The samples of fileengine_threads.
ThreadSamples(m) ==
  FoldLeft(LAMBDA acc, state : Sample(acc, "fileengine_threads", state), m, ThreadState)

LEMMA ThreadsName == "fileengine_threads" \in Name
BY Zenon DEF Name

LEMMA ThreadStates ==
  6 \in Nat /\ DOMAIN ThreadState = 1..6 /\ ThreadState \in [1..6 -> Label]
<1>1. ThreadState \in Seq(ToSet(ThreadState)) /\ Len(ThreadState) = 6
  BY DEF ThreadState, ToSet
<1>2. ToSet(ThreadState) \subseteq Label
  BY Zenon DEF Label
<1> QED
  BY <1>1, <1>2

LEMMA ThreadSamplesSteps ==
  ASSUME NEW m \in Page
  PROVE  \E acc : /\ acc[0] = m /\ acc[6] = ThreadSamples(m)
                  /\ \A k \in 1..6 : acc[k] = Sample(acc[k - 1], "fileengine_threads", ThreadState[k])
<1> DEFINE n == 6
           g == [x \in Page \X Label |-> Sample(x[1], "fileengine_threads", x[2])]
           Iterates(f) == f = [s \in SUBSET DOMAIN ThreadState |->
                                 IF s = {} THEN m
                                 ELSE Sample(f[s \ {Max(s)}], "fileengine_threads", ThreadState[Max(s)])]
<1>1. n \in Nat /\ DOMAIN ThreadState = 1..n /\ ThreadState \in [1..n -> Label]
  BY ThreadStates, Zenon
<1>2. g \in [Page \X Label -> Page]
  BY SampleType, ThreadsName, Zenon
<1>3. PICK f \in [SUBSET (1..n) -> Page] : Folds(f, g, m, ThreadState, n)
  <2> HIDE DEF n, g, Iterates
  <2> QED
    BY <1>1, <1>2, FoldExists, Zenon
<1>4. Iterates(f)
  <2>1. \A s \in SUBSET (1..n) : s # {} => Max(s) \in 1..n
    BY <1>1, MaxIn
  <2>2. ASSUME NEW s \in SUBSET (1..n), s # {}
        PROVE  g[<<f[s \ {Max(s)}], ThreadState[Max(s)]>>] = Sample(f[s \ {Max(s)}], "fileengine_threads", ThreadState[Max(s)])
    <3>1. f[s \ {Max(s)}] \in Page /\ ThreadState[Max(s)] \in Label
      BY <1>1, <2>1, <2>2
    <3> QED
      BY <3>1
  <2> QED
    BY <1>1, <1>3, <2>2, Zenon DEF Folds
<1>5. PICK h : Iterates(h) /\ ThreadSamples(m) = h[1..n]
  <2>1. ThreadSamples(m) = (CHOOSE h : Iterates(h))[DOMAIN ThreadState]
    BY DEF ThreadSamples, FoldLeft, MapThenFoldSet
  <2> HIDE DEF Iterates
  <2> QED
    BY <1>1, <1>4, <2>1
<1> DEFINE acc == [k \in 0..n |-> h[1..k]]
<1>6. \A k \in 0..n : 1..k \in SUBSET DOMAIN ThreadState
  BY <1>1
<1>7. acc[0] = m
  <2>1. 1..0 = {} /\ acc[0] = h[1..0]
    BY <1>1
  <2>2. h[{}] = m
    BY <1>5, Zenon
  <2> QED
    BY <2>1, <2>2
<1>8. ASSUME NEW k \in 1..n PROVE acc[k] = Sample(acc[k - 1], "fileengine_threads", ThreadState[k])
  <2>1. /\ k \in 0..n /\ k - 1 \in 0..n /\ 1..k # {} /\ 1..k \in SUBSET DOMAIN ThreadState
        /\ Max(1..k) = k /\ (1..k) \ {Max(1..k)} = 1..k - 1
    <3>1. k \in Nat /\ k # 0 /\ k \in 0..n /\ k - 1 \in 0..n /\ 1..k # {}
      BY <1>1
    <3> QED
      BY <1>6, <3>1, WithoutLast
  <2>2. h[1..k] = IF 1..k = {} THEN m
                  ELSE Sample(h[(1..k) \ {Max(1..k)}], "fileengine_threads", ThreadState[Max(1..k)])
    BY <1>5, <2>1, Zenon
  <2>3. h[1..k] = Sample(h[1..k - 1], "fileengine_threads", ThreadState[k])
    BY <2>1, <2>2, Zenon
  <2>4. acc[k] = h[1..k] /\ acc[k - 1] = h[1..k - 1]
    BY <2>1
  <2> QED
    BY <2>3, <2>4, Zenon
<1>9. acc[n] = ThreadSamples(m)
  <2>1. n \in 0..n
    BY <1>1
  <2>2. acc[n] = h[1..n]
    BY <2>1
  <2> QED
    BY <1>5, <2>2
<1> HIDE DEF acc
<1> QED
  BY <1>7, <1>8, <1>9, Zenon DEF n
-----------------------------------------------------------------------------
\* The family of the line a page ends in, so far.
Latest(m) == m.lines[Len(m.lines)].name

\* A page as it grows: in the format, and its families are those declared.
Sound(m) == m \in Page /\ m.declared = Names(m.lines) /\ WellFormed(m.lines)

\* A page with a line more.
LEMMA Appended ==
  ASSUME NEW page \in Seq(Entry), NEW line \in Entry
  PROVE  /\ Append(page, line) \in Seq(Entry)
         /\ Len(page) \in Nat /\ Len(Append(page, line)) = Len(page) + 1
         /\ DOMAIN page = 1..Len(page) /\ DOMAIN Append(page, line) = 1..Len(page) + 1
         /\ \A i \in 1..Len(page) : Append(page, line)[i] = page[i]
         /\ Append(page, line)[Len(page) + 1] = line
BY AppendProperties

Declarations(page, name) == {j \in Of(page, name) : page[j].kind = "family"}

LEMMA AppendedNames ==
  ASSUME NEW page \in Seq(Entry), NEW line \in Entry
  PROVE  Names(Append(page, line)) = Names(page) \cup {line.name}
<1> DEFINE new == Append(page, line)
           n == Len(page)
<1>1. /\ n \in Nat /\ DOMAIN page = 1..n /\ DOMAIN new = 1..n + 1
      /\ (\A i \in 1..n : new[i] = page[i]) /\ new[n + 1] = line
  BY Appended
<1> HIDE DEF new, n
<1>2. \A i \in 1..n + 1 : i = n + 1 \/ i \in 1..n
  BY <1>1
<1>3. \A i \in 1..n : i \in 1..n + 1
  BY <1>1
<1>4. n + 1 \in 1..n + 1
  BY <1>1
<1> QED
  BY <1>1, <1>2, <1>3, <1>4 DEF Names, new

LEMMA AppendedOf ==
  ASSUME NEW page \in Seq(Entry), NEW line \in Entry, NEW name
  PROVE  /\ line.name = name => Of(Append(page, line), name) = Of(page, name) \cup {Len(page) + 1}
         /\ line.name # name => Of(Append(page, line), name) = Of(page, name)
         /\ line.name = name /\ line.kind = "family" =>
              Declarations(Append(page, line), name) = Declarations(page, name) \cup {Len(page) + 1}
         /\ line.name # name \/ line.kind = "sample" =>
              Declarations(Append(page, line), name) = Declarations(page, name)
         /\ Of(page, name) \subseteq 1..Len(page)
<1> DEFINE new == Append(page, line)
           n == Len(page)
           more == IF line.name = name THEN {n + 1} ELSE {}
           decl == IF line.name = name /\ line.kind = "family" THEN {n + 1} ELSE {}
<1>1. /\ n \in Nat /\ DOMAIN page = 1..n /\ DOMAIN new = 1..n + 1
      /\ (\A i \in 1..n : new[i] = page[i]) /\ new[n + 1] = line
  BY Appended
<1>2. Of(new, name) = Of(page, name) \cup more
  <2>1. \A i \in 1..n + 1 : i = n + 1 \/ i \in 1..n
    BY <1>1
  <2>2. (\A i \in 1..n : i \in 1..n + 1) /\ n + 1 \in 1..n + 1
    BY <1>1
  <2> HIDE DEF new, n
  <2>3. ASSUME NEW i PROVE i \in Of(new, name) <=> i \in Of(page, name) \cup more
    BY <1>1, <2>1, <2>2 DEF Of
  <2> QED
    BY <2>3
<1>3. Declarations(new, name) = Declarations(page, name) \cup decl
  <2>1. (\A i \in Of(page, name) : i \in 1..n /\ new[i] = page[i]) /\ ~(n + 1 \in 1..n)
    BY <1>1 DEF Of
  <2> HIDE DEF new, n
  <2>2. ASSUME NEW i PROVE i \in Declarations(new, name) <=> i \in Declarations(page, name) \cup decl
    BY <1>1, <1>2, <2>1 DEF Declarations
  <2> QED
    BY <2>2
<1>4. Of(page, name) \subseteq 1..n
  BY <1>1 DEF Of
<1> HIDE DEF new, n
<1>5. line.kind = "sample" => line.kind # "family"
  OBVIOUS
<1> QED
  BY <1>2, <1>3, <1>4, <1>5 DEF new, n

\* What is asked of the i-th line.
LineOK(page, i) ==
  LET mine == Of(page, page[i].name)
  IN  /\ Cardinality(Declarations(page, page[i].name)) = 1
      /\ \A j \in mine : \A k \in j..i : k \in mine
      /\ page[i].kind = "sample" => \E j \in mine : j < i /\ page[j].kind = "family"

LEMMA WellFormedLines == ASSUME NEW page PROVE WellFormed(page) <=> \A i \in DOMAIN page : LineOK(page, i)
BY DEF WellFormed, LineOK, Declarations

\* A line of another family, or a sample of its own, leaves a line as it was.
LEMMA LineKept ==
  ASSUME NEW page \in Seq(Entry), NEW line \in Entry, NEW i \in 1..Len(page), LineOK(page, i),
         line.name # page[i].name \/ line.kind = "sample"
  PROVE  LineOK(Append(page, line), i)
<1> DEFINE new == Append(page, line)
           n == Len(page)
           name == page[i].name
           mine == Of(page, name)
<1>1. n \in Nat /\ new[i] = page[i] /\ \A j \in 1..n : new[j] = page[j]
  BY Appended
<1>2. Declarations(new, name) = Declarations(page, name)
  BY AppendedOf
<1>3. mine \subseteq 1..n /\ (Of(new, name) = mine \/ Of(new, name) = mine \cup {n + 1})
  BY AppendedOf
<1>4. /\ Cardinality(Declarations(page, name)) = 1
      /\ \A j \in mine : \A k \in j..i : k \in mine
      /\ page[i].kind = "sample" => \E j \in mine : j < i /\ page[j].kind = "family"
  BY DEF LineOK
<1> HIDE DEF new, n, name, mine
<1>5. \A j \in Of(new, name) : \A k \in j..i : k \in Of(new, name)
  <2> SUFFICES ASSUME NEW j \in Of(new, name), NEW k \in j..i PROVE k \in Of(new, name)
    OBVIOUS
  <2>1. j # n + 1
    BY <1>1 DEF n
  <2>2. j \in mine
    BY <1>3, <2>1
  <2> QED
    BY <1>3, <1>4, <2>2
<1>6. new[i].kind = "sample" => \E j \in Of(new, name) : j < i /\ new[j].kind = "family"
  BY <1>1, <1>3, <1>4
<1>7. new[i].name = name
  BY <1>1 DEF name
<1> QED
  BY <1>2, <1>4, <1>5, <1>6, <1>7 DEF LineOK, new

\* A family of its own may be opened, ...
LEMMA FamilyOpens ==
  ASSUME NEW page \in Seq(Entry), WellFormed(page), NEW line \in Entry,
         line.kind = "family", line.name \notin Names(page)
  PROVE  WellFormed(Append(page, line))
<1> DEFINE new == Append(page, line)
           n == Len(page)
<1>1. n \in Nat /\ DOMAIN page = 1..n /\ DOMAIN new = 1..n + 1 /\ new[n + 1] = line
  BY Appended
<1>2. \A i \in 1..n : LineOK(new, i)
  <2> SUFFICES ASSUME NEW i \in 1..n PROVE LineOK(new, i)
    OBVIOUS
  <2>1. LineOK(page, i)
    BY <1>1, WellFormedLines
  <2>2. line.name # page[i].name
    BY <1>1 DEF Names
  <2> QED
    BY <2>1, <2>2, LineKept
<1>3. LineOK(new, n + 1)
  <2>1. Of(page, line.name) = {} /\ Declarations(page, line.name) = {}
    BY DEF Names, Of, Declarations
  <2>2. /\ Of(new, line.name) = Of(page, line.name) \cup {n + 1}
        /\ Declarations(new, line.name) = Declarations(page, line.name) \cup {n + 1}
    BY AppendedOf
  <2>3. Cardinality({n + 1}) = 1
    BY FS_Singleton
  <2>4. \A k \in n + 1..n + 1 : k = n + 1
    BY <1>1
  <2> HIDE DEF new, n
  <2>5. /\ Of(new, line.name) = {n + 1} /\ Cardinality(Declarations(new, line.name)) = 1
        /\ new[n + 1].name = line.name /\ new[n + 1].kind # "sample"
    BY <1>1, <2>1, <2>2, <2>3
  <2> QED
    BY <2>4, <2>5 DEF LineOK
<1>4. \A i \in 1..n + 1 : i \in 1..n \/ i = n + 1
  BY <1>1
<1> HIDE DEF new, n
<1> QED
  BY <1>1, <1>2, <1>3, <1>4, WellFormedLines DEF new

\* ... and samples follow while it is the last.
LEMMA SampleFollows ==
  ASSUME NEW page \in Seq(Entry), WellFormed(page), NEW line \in Entry,
         line.kind = "sample", page # <<>>, page[Len(page)].name = line.name
  PROVE  WellFormed(Append(page, line))
<1> DEFINE new == Append(page, line)
           n == Len(page)
           mine == Of(page, line.name)
<1>1. /\ n \in Nat /\ n \in 1..n /\ DOMAIN page = 1..n /\ DOMAIN new = 1..n + 1
      /\ new[n + 1] = line /\ \A j \in 1..n : new[j] = page[j]
  BY Appended
<1>2. \A i \in 1..n : LineOK(new, i)
  BY <1>1, WellFormedLines, LineKept
<1>3. LineOK(new, n + 1)
  <2>1. /\ Of(new, line.name) = mine \cup {n + 1} /\ mine \subseteq 1..n
        /\ Declarations(new, line.name) = Declarations(page, line.name)
    BY AppendedOf
  <2>2. LineOK(page, n)
    BY <1>1, WellFormedLines
  <2> HIDE DEF new, n, mine
  <2>3. /\ Cardinality(Declarations(page, line.name)) = 1
        /\ \A j \in mine : \A k \in j..n : k \in mine
    BY <2>2 DEF LineOK, mine, n
  <2>4. PICK d : Declarations(page, line.name) = {d}
    <3>1. Declarations(page, line.name) # {}
      <4>1. Cardinality({}) = 0
        BY FS_EmptySet
      <4> SUFFICES ASSUME Declarations(page, line.name) = {} PROVE FALSE
        OBVIOUS
      <4>2. Cardinality(Declarations(page, line.name)) = Cardinality({})
        OBVIOUS
      <4> QED
        BY <2>3, <4>1, <4>2
    <3>2. IsFiniteSet(Declarations(page, line.name))
      <4>1. Declarations(page, line.name) \subseteq 1..n
        BY <2>1 DEF Declarations, mine
      <4> QED
        <5>1. IsFiniteSet(1..n)
          BY <1>1, FS_Interval
        <5> QED
          BY <4>1, <5>1, FS_Subset
    <3> QED
      BY <2>3, <3>2, FS_Singleton
  <2>5. d \in mine /\ page[d].kind = "family" /\ d \in 1..n /\ d < n + 1 /\ new[d] = page[d]
    BY <1>1, <2>1, <2>4 DEF Declarations, mine
  <2>6. \A j \in mine \cup {n + 1} : \A k \in j..n + 1 : k \in mine \cup {n + 1}
    <3>1. \A j \in mine \cup {n + 1} : \A k \in j..n + 1 : k = n + 1 \/ (j \in mine /\ k \in j..n)
      BY <1>1, <2>1
    <3> QED
      BY <2>3, <3>1
  <2> QED
    BY <1>1, <2>1, <2>3, <2>5, <2>6 DEF LineOK
<1>4. \A i \in 1..n + 1 : i \in 1..n \/ i = n + 1
  BY <1>1
<1> HIDE DEF new, n
<1> QED
  BY <1>1, <1>2, <1>3, <1>4, WellFormedLines DEF new

LEMMA FamilySound ==
  ASSUME NEW m, Sound(m), NEW name \in Name, name \notin m.declared
  PROVE  /\ Sound(Family(m, name)) /\ Family(m, name).declared = m.declared \cup {name}
         /\ Family(m, name).lines # <<>> /\ Latest(Family(m, name)) = name
<1> DEFINE line == [kind |-> "family", name |-> name, label |-> ""]
           new == Append(m.lines, line)
           fam == Family(m, name)
<1>1. line \in Entry
  BY EmptyLabel, Zenon DEF Entry
<1>2. line.name = name /\ line.kind = "family"
  BY Zenon
<1>3. fam.lines = new /\ fam.declared = m.declared \cup {name}
  BY Zenon DEF Family
<1> HIDE DEF line
<1>4. m.lines \in Seq(Entry) /\ m.declared = Names(m.lines) /\ WellFormed(m.lines) /\ m \in Page
  BY DEF Sound, Page
<1>5. WellFormed(new)
  BY <1>1, <1>2, <1>4, FamilyOpens
<1>6. Names(new) = Names(m.lines) \cup {name}
  BY <1>1, <1>2, <1>4, AppendedNames
<1>7. fam \in Page
  BY <1>4, FamilyType
<1>8. new # <<>> /\ new[Len(new)].name = name
  BY <1>1, <1>2, <1>4, Appended
<1> HIDE DEF new, fam
<1> QED
  BY <1>3, <1>4, <1>5, <1>6, <1>7, <1>8 DEF Sound, Latest, fam

LEMMA SampleSound ==
  ASSUME NEW m, Sound(m), NEW name \in Name, NEW label \in Label, m.lines # <<>>, Latest(m) = name
  PROVE  /\ Sound(Sample(m, name, label)) /\ Sample(m, name, label).declared = m.declared
         /\ Sample(m, name, label).lines # <<>> /\ Latest(Sample(m, name, label)) = name
<1> DEFINE line == [kind |-> "sample", name |-> name, label |-> label]
           new == Append(m.lines, line)
           sam == Sample(m, name, label)
<1>1. line \in Entry
  BY DEF Entry
<1>2. line.name = name /\ line.kind = "sample"
  OBVIOUS
<1>3. m.lines \in Seq(Entry) /\ m.declared = Names(m.lines) /\ WellFormed(m.lines) /\ m \in Page
  BY DEF Sound, Page
<1>4. sam \in Page /\ sam.lines = new /\ sam.declared = m.declared
  BY <1>3, SampleType
<1> HIDE DEF line, sam
<1>5. WellFormed(new)
  BY <1>1, <1>2, <1>3, SampleFollows DEF Latest
<1>6. Names(new) = Names(m.lines)
  <2>1. Len(m.lines) \in DOMAIN m.lines
    BY <1>3
  <2>2. name \in Names(m.lines)
    BY <2>1 DEF Names, Latest
  <2>3. Names(new) = Names(m.lines) \cup {name}
    BY <1>1, <1>2, <1>3, AppendedNames
  <2> QED
    BY <2>2, <2>3
<1>7. new # <<>> /\ new[Len(new)].name = name
  BY <1>1, <1>2, <1>3, Appended
<1> HIDE DEF new
<1> QED
  BY <1>3, <1>4, <1>5, <1>6, <1>7 DEF Sound, Latest, sam

\* A gauge of a family that is not on the page yet keeps the page sound.
LEMMA GaugeSound ==
  ASSUME NEW m, Sound(m), NEW name \in Name, NEW label \in Label, name \notin m.declared
  PROVE  Sound(Gauge(m, name, label)) /\ Gauge(m, name, label).declared = m.declared \cup {name}
BY FamilySound, SampleSound DEF Gauge

LEMMA GaugesSound ==
  ASSUME NEW m, Sound(m), NEW names \in Seq(Name),
         \A i \in 1..Len(names) : names[i] \notin m.declared,
         \A i, j \in 1..Len(names) : i # j => names[i] # names[j]
  PROVE  /\ Sound(Gauges(m, names))
         /\ Gauges(m, names).declared = m.declared \cup {names[i] : i \in 1..Len(names)}
<1> DEFINE n == Len(names)
<1>1. n \in Nat /\ (\A i \in 1..n : names[i] \in Name) /\ m \in Page
  BY DEF Sound
<1>2. PICK acc : /\ acc[0] = m /\ acc[n] = Gauges(m, names)
                 /\ \A k \in 1..n : acc[k] = Gauge(acc[k - 1], names[k], "")
  BY <1>1, GaugesSteps
<1> DEFINE S == {k \in 0..n : /\ Sound(acc[k])
                              /\ acc[k].declared = m.declared \cup {names[i] : i \in 1..k}}
<1> HIDE DEF n
<1>3. 0 \in S
  <2>1. 0 \in 0..n /\ 1..0 = {}
    BY <1>1
  <2>2. {names[i] : i \in 1..0} = {}
    BY <2>1
  <2> QED
    BY <1>2, <2>1, <2>2
<1>4. ASSUME NEW k \in 1..n, k - 1 \in S PROVE k \in S
  <2>1. /\ Sound(acc[k - 1])
        /\ acc[k - 1].declared = m.declared \cup {names[i] : i \in 1..k - 1}
    BY <1>4
  <2>2. /\ k \in 0..n /\ 1..k = (1..k - 1) \cup {k} /\ k \notin 1..k - 1
        /\ 1..k - 1 \subseteq 1..n
    BY <1>1
  <2>3. names[k] \in Name /\ names[k] \notin acc[k - 1].declared
    BY <1>1, <2>1, <2>2 DEF n
  <2>4. /\ Sound(Gauge(acc[k - 1], names[k], ""))
        /\ Gauge(acc[k - 1], names[k], "").declared = acc[k - 1].declared \cup {names[k]}
    BY <2>1, <2>3, EmptyLabel, GaugeSound, Zenon
  <2>5. acc[k] = Gauge(acc[k - 1], names[k], "")
    BY <1>2, Zenon
  <2>6. Sound(acc[k]) /\ acc[k].declared = acc[k - 1].declared \cup {names[k]}
    BY <2>4, <2>5, Zenon
  <2>7. acc[k].declared = m.declared \cup {names[i] : i \in 1..k}
    BY <2>1, <2>2, <2>6
  <2> QED
    BY <2>2, <2>6, <2>7
<1> HIDE DEF S
<1>5. \A k \in 0..n : k \in S
  BY <1>1, <1>3, <1>4, StepByStep, Zenon
<1>6. n \in S
  BY <1>1, <1>5
<1> QED
  BY <1>2, <1>6 DEF S, n

LEMMA ThreadSamplesSound ==
  ASSUME NEW m, Sound(m), m.lines # <<>>, Latest(m) = "fileengine_threads"
  PROVE  Sound(ThreadSamples(m)) /\ ThreadSamples(m).declared = m.declared
<1>1. PICK acc : /\ acc[0] = m /\ acc[6] = ThreadSamples(m)
                 /\ \A k \in 1..6 : acc[k] = Sample(acc[k - 1], "fileengine_threads", ThreadState[k])
  <2>1. m \in Page
    BY DEF Sound
  <2> QED
    BY <2>1, ThreadSamplesSteps
<1> DEFINE S == {k \in 0..6 : /\ Sound(acc[k]) /\ acc[k].declared = m.declared
                              /\ acc[k].lines # <<>> /\ Latest(acc[k]) = "fileengine_threads"}
<1>2. 0 \in S
  BY <1>1
<1>3. ASSUME NEW k \in 1..6, k - 1 \in S PROVE k \in S
  <2>1. ThreadState[k] \in Label
    BY ThreadStates
  <2>2. acc[k] = Sample(acc[k - 1], "fileengine_threads", ThreadState[k])
    BY <1>1
  <2> QED
    BY <1>3, <2>1, <2>2, ThreadsName, SampleSound
<1> HIDE DEF S
<1>4. \A k \in 0..6 : k \in S
  <2>1. 6 \in Nat
    OBVIOUS
  <2> QED
    BY <1>2, <1>3, <2>1, StepByStep, Zenon
<1>5. 6 \in S
  BY <1>4
<1> QED
  BY <1>1, <1>5 DEF S

\* Distinct names; the service's gauges are not among those of the process.
Early ==
  {"fileengine_build_info", "process_resident_memory_bytes", "process_open_fds",
   "process_threads", "fileengine_threads", "fileengine_threads_not_waiting",
   "fileengine_uptime_seconds"}

LEMMA EarlyNames ==
  /\ Early \subseteq Name /\ "fileengine_collector_failed" \in Name \ Early
  /\ ServiceGauges \in Seq(Name) /\ Len(ServiceGauges) = 3
  /\ \A i \in 1..3 : ServiceGauges[i] \in Name \ Early
                     /\ ServiceGauges[i] # "fileengine_collector_failed"
  /\ \A i, j \in 1..3 : i # j => ServiceGauges[i] # ServiceGauges[j]
<1>1. Early \subseteq Name
  BY Zenon DEF Early, Name
<1>2. "fileengine_collector_failed" \in Name \ Early
  BY Zenon DEF Early, Name
<1>3. ServiceGauges \in Seq(ToSet(ServiceGauges)) /\ Len(ServiceGauges) = 3
  BY DEF ServiceGauges, ToSet
<1>4. ToSet(ServiceGauges) \subseteq Name
  BY Zenon DEF Name
<1>5. /\ ServiceGauges[1] = "fileengine_mcp_tokens_active"
      /\ ServiceGauges[2] = "fileengine_mcp_tokens_expired_retained"
      /\ ServiceGauges[3] = "fileengine_mcp_read_only"
  BY DEF ServiceGauges
<1>6. \A i \in 1..3 : i = 1 \/ i = 2 \/ i = 3
  OBVIOUS
<1>7. ServiceGauges \in Seq(Name) /\ \A i \in 1..3 : ServiceGauges[i] \in Name
  BY <1>3, <1>4
<1>8. \A i \in 1..3 : ServiceGauges[i] \notin Early /\ ServiceGauges[i] # "fileengine_collector_failed"
  BY <1>5, <1>6 DEF Early
<1>9. \A i, j \in 1..3 : i # j => ServiceGauges[i] # ServiceGauges[j]
  BY <1>5, <1>6
<1> QED
  BY <1>1, <1>2, <1>3, <1>7, <1>8, <1>9

LEMMA ThreadsSound ==
  ASSUME NEW m, Sound(m),
         m.declared \cap {"process_threads", "fileengine_threads", "fileengine_threads_not_waiting"} = {}
  PROVE  /\ Sound(Threads(m))
         /\ Threads(m).declared = m.declared \cup
              {"process_threads", "fileengine_threads", "fileengine_threads_not_waiting"}
<1> DEFINE a == Gauge(m, "process_threads", "")
           b == Family(a, "fileengine_threads")
           c == ThreadSamples(b)
<1>1. Threads(m) = Gauge(c, "fileengine_threads_not_waiting", "")
  BY DEF Threads, ThreadSamples
<1>2. /\ "process_threads" \in Name /\ "fileengine_threads" \in Name
      /\ "fileengine_threads_not_waiting" \in Name
  BY Zenon DEF Name
<1>3. /\ "process_threads" \notin m.declared /\ "fileengine_threads" \notin m.declared
      /\ "fileengine_threads_not_waiting" \notin m.declared
  BY Zenon
<1>4. Sound(a) /\ a.declared = m.declared \cup {"process_threads"}
  BY <1>2, <1>3, EmptyLabel, GaugeSound, Zenon
<1> HIDE DEF a
<1>5. "fileengine_threads" \notin a.declared
  BY <1>3, <1>4
<1>6. /\ Sound(b) /\ b.declared = a.declared \cup {"fileengine_threads"}
      /\ b.lines # <<>> /\ Latest(b) = "fileengine_threads"
  BY <1>2, <1>4, <1>5, FamilySound
<1> HIDE DEF b
<1>7. Sound(c) /\ c.declared = b.declared
  BY <1>6, ThreadSamplesSound
<1> HIDE DEF c
<1>8. "fileengine_threads_not_waiting" \notin c.declared
  BY <1>3, <1>4, <1>6, <1>7
<1>9. /\ Sound(Threads(m))
      /\ Threads(m).declared = c.declared \cup {"fileengine_threads_not_waiting"}
  <2> DEFINE d == Gauge(c, "fileengine_threads_not_waiting", "")
  <2>1. Sound(d) /\ d.declared = c.declared \cup {"fileengine_threads_not_waiting"}
    BY <1>2, <1>7, <1>8, EmptyLabel, GaugeSound, Zenon
  <2>2. Threads(m) = d
    BY <1>1
  <2> HIDE DEF d
  <2> QED
    BY <2>1, <2>2
<1> QED
  BY <1>4, <1>6, <1>7, <1>9

LEMMA BuildInfoSound ==
  /\ Sound(Gauge(Blank, "fileengine_build_info", "version"))
  /\ Gauge(Blank, "fileengine_build_info", "version").declared = {"fileengine_build_info"}
<1>1. Blank.lines = <<>> /\ Blank.declared = {}
  BY DEF Blank
<1>2. Blank \in Page
  BY DEF Blank, Page
<1>3. Sound(Blank)
  BY <1>1, <1>2 DEF Sound, Names, WellFormed
<1>4. "fileengine_build_info" \in Name /\ "version" \in Label
  BY Zenon DEF Name, Label
<1>5. "fileengine_build_info" \notin Blank.declared
  BY <1>1
<1>6. /\ Sound(Gauge(Blank, "fileengine_build_info", "version"))
      /\ Gauge(Blank, "fileengine_build_info", "version").declared
           = Blank.declared \cup {"fileengine_build_info"}
  BY <1>3, <1>4, <1>5, GaugeSound, Zenon
<1> QED
  BY <1>1, <1>6

\* ShowsWhatWasRead, of the families declared.
Shown(declared, reading) ==
  /\ reading.status # "raises" =>
       /\ reading.status = "read" => "process_resident_memory_bytes" \in declared
       /\ reading.fd = "read" => "process_open_fds" \in declared
       /\ reading.task = "read" => {"process_threads", "fileengine_threads",
                                    "fileengine_threads_not_waiting"} \subseteq declared
  /\ reading.status # "raises" /\ reading.task # "raises" =>
       "fileengine_uptime_seconds" \in declared

LEMMA ShownOnPage ==
  ASSUME NEW page, NEW reading, Shown(Names(page), reading)
  PROVE  ShowsWhatWasRead(page, reading)
<1>1. ASSUME reading.status # "raises", NEW source \in Proc, reading[source] = "read"
      PROVE  FamiliesOf(source) \subseteq Names(page)
  <2>1. CASE source = "status"
    <3>1. reading.status = "read" /\ FamiliesOf(source) = {"process_resident_memory_bytes"}
      BY <1>1, <2>1 DEF FamiliesOf
    <3> QED
      BY <1>1, <3>1 DEF Shown
  <2>2. CASE source = "fd"
    <3>1. reading.fd = "read" /\ FamiliesOf(source) = {"process_open_fds"}
      BY <1>1, <2>2 DEF FamiliesOf
    <3> QED
      BY <1>1, <3>1 DEF Shown
  <2>3. CASE source = "task"
    <3>1. /\ reading.task = "read"
          /\ FamiliesOf(source) = {"process_threads", "fileengine_threads",
                                   "fileengine_threads_not_waiting"}
      BY <1>1, <2>3 DEF FamiliesOf
    <3> QED
      BY <1>1, <3>1 DEF Shown
  <2> QED
    BY <1>1, <2>1, <2>2, <2>3 DEF Proc
<1>2. reading.status # "raises" /\ reading.task # "raises" =>
        "fileengine_uptime_seconds" \in Names(page)
  BY DEF Shown
<1> QED
  BY <1>1, <1>2 DEF ShowsWhatWasRead

\* More families declared show no less.
LEMMA ShownByMore ==
  ASSUME NEW reading, NEW some, NEW more, Shown(some, reading), some \subseteq more
  PROVE  Shown(more, reading)
BY DEF Shown

\* process_metrics, whatever becomes of its sources, and to its end or not.
LEMMA ProcessSound ==
  ASSUME NEW m, Sound(m), m.declared = {"fileengine_build_info"}, NEW reading
  PROVE  /\ Sound(ProcessMetrics(m, reading))
         /\ ProcessMetrics(m, reading).declared \subseteq Early
         /\ "fileengine_build_info" \in ProcessMetrics(m, reading).declared
         /\ Shown(ProcessMetrics(m, reading).declared, reading)
<1> DEFINE memory == IF reading.status = "read" THEN Gauge(m, "process_resident_memory_bytes", "")
                     ELSE m
           files == IF reading.fd = "read" THEN Gauge(memory, "process_open_fds", "") ELSE memory
           threads == IF reading.task = "read" THEN Threads(files) ELSE files
           all == Gauge(threads, "fileengine_uptime_seconds", "")
<1>1. ProcessMetrics(m, reading) = IF reading.status = "raises" THEN m
                                   ELSE IF reading.task = "raises" THEN files ELSE all
  BY Zenon DEF ProcessMetrics
<1>2. /\ "process_resident_memory_bytes" \in Name /\ "process_open_fds" \in Name
      /\ "fileengine_uptime_seconds" \in Name
  BY Zenon DEF Name
<1>3. /\ Sound(memory) /\ "fileengine_build_info" \in memory.declared
      /\ memory.declared \subseteq {"fileengine_build_info", "process_resident_memory_bytes"}
      /\ reading.status = "read" => "process_resident_memory_bytes" \in memory.declared
  <2> DEFINE gauge == Gauge(m, "process_resident_memory_bytes", "")
  <2>1. "process_resident_memory_bytes" \notin m.declared
    OBVIOUS
  <2>2. Sound(gauge) /\ gauge.declared = m.declared \cup {"process_resident_memory_bytes"}
    BY <1>2, <2>1, EmptyLabel, GaugeSound, Zenon
  <2>3. memory = IF reading.status = "read" THEN gauge ELSE m
    OBVIOUS
  <2> HIDE DEF gauge, memory
  <2> QED
    BY <2>2, <2>3
<1> HIDE DEF memory
<1>4. /\ Sound(files) /\ memory.declared \subseteq files.declared
      /\ files.declared \subseteq {"fileengine_build_info", "process_resident_memory_bytes",
                                   "process_open_fds"}
      /\ reading.fd = "read" => "process_open_fds" \in files.declared
  <2> DEFINE gauge == Gauge(memory, "process_open_fds", "")
  <2>1. "process_open_fds" \notin memory.declared
    BY <1>3
  <2>2. Sound(gauge) /\ gauge.declared = memory.declared \cup {"process_open_fds"}
    BY <1>2, <1>3, <2>1, EmptyLabel, GaugeSound, Zenon
  <2>3. files = IF reading.fd = "read" THEN gauge ELSE memory
    OBVIOUS
  <2> HIDE DEF gauge, files
  <2> QED
    BY <1>3, <2>2, <2>3
<1> HIDE DEF files
<1>5. /\ Sound(threads) /\ files.declared \subseteq threads.declared
      /\ threads.declared \subseteq Early \ {"fileengine_uptime_seconds"}
      /\ reading.task = "read" => {"process_threads", "fileengine_threads",
                                   "fileengine_threads_not_waiting"} \subseteq threads.declared
  <2>1. files.declared \cap {"process_threads", "fileengine_threads", "fileengine_threads_not_waiting"} = {}
    BY <1>4
  <2>2. /\ Sound(Threads(files))
        /\ Threads(files).declared = files.declared \cup
              {"process_threads", "fileengine_threads", "fileengine_threads_not_waiting"}
    BY <1>4, <2>1, ThreadsSound, Zenon
  <2>3. threads = IF reading.task = "read" THEN Threads(files) ELSE files
    OBVIOUS
  <2> HIDE DEF threads
  <2> QED
    BY <1>4, <2>2, <2>3 DEF Early
<1> HIDE DEF threads
<1>6. "fileengine_uptime_seconds" \notin threads.declared
  BY <1>5
<1>7. Sound(all) /\ all.declared = threads.declared \cup {"fileengine_uptime_seconds"}
  BY <1>2, <1>5, <1>6, EmptyLabel, GaugeSound, Zenon
<1> HIDE DEF all
<1> DEFINE page == ProcessMetrics(m, reading)
<1> HIDE DEF page
<1>8. CASE reading.status = "raises"
  <2>1. page = m
    BY <1>1, <1>8 DEF page
  <2> QED
    BY <1>8, <2>1 DEF page, Early, Shown
<1>9. CASE reading.status # "raises" /\ reading.task = "raises"
  <2>1. page = files
    BY <1>1, <1>9 DEF page
  <2>2. page.declared \subseteq Early /\ "fileengine_build_info" \in page.declared
    BY <1>3, <1>4, <2>1 DEF Early
  <2>3. Shown(page.declared, reading)
    BY <1>3, <1>4, <1>9, <2>1 DEF Shown
  <2> QED
    BY <1>4, <2>1, <2>2, <2>3 DEF page
<1>10. CASE reading.status # "raises" /\ reading.task # "raises"
  <2>1. page = all
    BY <1>1, <1>10 DEF page
  <2>2. page.declared \subseteq Early /\ "fileengine_build_info" \in page.declared
    BY <1>3, <1>4, <1>5, <1>7, <2>1 DEF Early
  <2>3. Shown(page.declared, reading)
    BY <1>3, <1>4, <1>5, <1>7, <2>1 DEF Shown
  <2> QED
    BY <1>7, <2>1, <2>2, <2>3 DEF page
<1> QED
  BY <1>8, <1>9, <1>10

\* metrics.render, whatever becomes of reading /proc and wherever the collector stops:
\* the page keeps the format, has the service's gauges or says that they failed, and
\* has what was read of the process before the reading raised.
THEOREM RenderComplete ==
  ASSUME NEW reading, NEW n \in 0..Len(ServiceGauges)
  PROVE  /\ WellFormed(Render(reading, n)) /\ SaysWhatFailed(Render(reading, n))
         /\ ShowsWhatWasRead(Render(reading, n), reading)
<1> DEFINE begin == Gauge(Blank, "fileengine_build_info", "version")
           process == ProcessMetrics(begin, reading)
           names == SubSeq(ServiceGauges, 1, n)
           done == Gauges(process, names)
           page == Collect(process, n)
<1>1. Render(reading, n) = page.lines
  BY DEF Render
<1>2. /\ Sound(process) /\ process.declared \subseteq Early
      /\ "fileengine_build_info" \in process.declared /\ Shown(process.declared, reading)
  <2>1. Sound(begin) /\ begin.declared = {"fileengine_build_info"}
    BY BuildInfoSound
  <2> HIDE DEF begin
  <2> QED
    BY <2>1, ProcessSound
<1> HIDE DEF process
<1>3. n \in 0..3
  BY EarlyNames
<1>4. names \in Seq(Name) /\ Len(names) = n /\ \A i \in 1..n : names[i] = ServiceGauges[i]
  <2>1. n = 0 \/ n = 1 \/ n = 2 \/ n = 3
    BY <1>3
  <2> QED
    BY <2>1, EarlyNames
<1> HIDE DEF names
<1>5. /\ Sound(done)
      /\ done.declared = process.declared \cup {names[i] : i \in 1..Len(names)}
  <2>1. \A i \in 1..Len(names) : i \in 1..3 /\ names[i] = ServiceGauges[i]
    BY <1>3, <1>4
  <2>2. \A i \in 1..Len(names) : names[i] \notin process.declared
    BY <1>2, <2>1, EarlyNames
  <2>3. \A i, j \in 1..Len(names) : i # j => names[i] # names[j]
    BY <2>1, EarlyNames
  <2> QED
    BY <1>2, <1>4, <2>2, <2>3, GaugesSound
<1> HIDE DEF done
<1>6. Sound(page) /\ done.declared \subseteq page.declared
      /\ (n = 3 \/ "fileengine_collector_failed" \in page.declared)
  <2> DEFINE failed == Gauge(done, "fileengine_collector_failed", "_service_metrics")
  <2>1. "fileengine_collector_failed" \notin done.declared
    <3>1. \A i \in 1..Len(names) : names[i] # "fileengine_collector_failed"
      BY <1>3, <1>4, EarlyNames
    <3> QED
      BY <1>2, <1>5, <3>1, EarlyNames
  <2>2. "fileengine_collector_failed" \in Name /\ "_service_metrics" \in Label
    BY Zenon DEF Name, Label
  <2>3. Sound(failed) /\ failed.declared = done.declared \cup {"fileengine_collector_failed"}
    BY <1>5, <2>1, <2>2, GaugeSound, Zenon
  <2>4. page = IF n = 3 THEN done ELSE failed
    BY EarlyNames DEF Collect, done, names
  <2> HIDE DEF failed, page
  <2> QED
    BY <1>5, <2>3, <2>4
<1> HIDE DEF page
<1>7. Names(page.lines) = page.declared /\ WellFormed(page.lines)
  BY <1>6 DEF Sound
<1>8. n = 3 => ToSet(ServiceGauges) \subseteq page.declared
  <2> SUFFICES ASSUME n = 3, NEW x \in ToSet(ServiceGauges) PROVE x \in page.declared
    OBVIOUS
  <2>1. PICK i \in 1..3 : x = ServiceGauges[i]
    BY EarlyNames DEF ToSet
  <2>2. names[i] = x /\ i \in 1..Len(names)
    BY <1>4, <2>1
  <2> QED
    BY <1>5, <1>6, <2>2
<1>9. SaysWhatFailed(page.lines)
  BY <1>2, <1>5, <1>6, <1>7, <1>8 DEF SaysWhatFailed
<1>10. ShowsWhatWasRead(page.lines, reading)
  <2>1. process.declared \subseteq page.declared
    BY <1>5, <1>6
  <2>2. Shown(page.declared, reading)
    BY <1>2, <2>1, ShownByMore
  <2> QED
    BY <1>7, <2>2, ShownOnPage
<1> QED
  BY <1>1, <1>7, <1>9, <1>10
-----------------------------------------------------------------------------
Assignment == [key : STRING, val : STRING]
Environment == UNION {[S -> STRING] : S \in SUBSET STRING}

\* A line sets its variable if that is not set, and changes nothing else.
LEMMA SetDefaultIs ==
  ASSUME NEW env, NEW line
  PROVE  /\ DOMAIN SetDefault(env, line) = DOMAIN env \cup {line.key}
         /\ \A v \in DOMAIN env : SetDefault(env, line)[v] = env[v]
         /\ line.key \notin DOMAIN env => SetDefault(env, line)[line.key] = line.val
         /\ SetDefault(env, line) = [v \in DOMAIN env \cup {line.key} |-> SetDefault(env, line)[v]]
BY DEF SetDefault

LEMMA SetDefaultType ==
  ASSUME NEW env \in Environment, NEW line \in Assignment
  PROVE  SetDefault(env, line) \in Environment
<1> DEFINE new == SetDefault(env, line)
<1>1. DOMAIN env \in SUBSET STRING /\ \A v \in DOMAIN env : env[v] \in STRING
  BY DEF Environment
<1>2. line.key \in STRING /\ line.val \in STRING
  BY DEF Assignment
<1>3. /\ new = [v \in DOMAIN env \cup {line.key} |-> new[v]]
      /\ \A v \in DOMAIN env : new[v] = env[v]
      /\ line.key \notin DOMAIN env => new[line.key] = line.val
  BY SetDefaultIs
<1> HIDE DEF new
<1>4. \A v \in DOMAIN env \cup {line.key} : new[v] \in STRING
  BY <1>1, <1>2, <1>3
<1>5. new \in [DOMAIN env \cup {line.key} -> STRING] /\ DOMAIN env \cup {line.key} \in SUBSET STRING
  BY <1>1, <1>2, <1>3, <1>4
<1> QED
  BY <1>5 DEF Environment, new

\* The file is read line by line.
LEMMA DotenvSteps ==
  ASSUME NEW env \in Environment, NEW lines \in Seq(Assignment)
  PROVE  \E acc : /\ acc[0] = env /\ acc[Len(lines)] = LoadDotenv(env, lines)
                  /\ \A k \in 1..Len(lines) : acc[k] = SetDefault(acc[k - 1], lines[k])
<1> DEFINE n == Len(lines)
           g == [x \in Environment \X Assignment |-> SetDefault(x[1], x[2])]
           Iterates(f) == f = [s \in SUBSET DOMAIN lines |->
                                 IF s = {} THEN env
                                 ELSE SetDefault(f[s \ {Max(s)}], lines[Max(s)])]
<1>1. n \in Nat /\ DOMAIN lines = 1..n /\ lines \in [1..n -> Assignment]
  OBVIOUS
<1>2. g \in [Environment \X Assignment -> Environment]
  BY SetDefaultType, Zenon
<1>3. PICK f \in [SUBSET (1..n) -> Environment] : Folds(f, g, env, lines, n)
  <2> HIDE DEF n, g, Iterates
  <2> QED
    BY <1>1, <1>2, FoldExists, Zenon
<1>4. Iterates(f)
  <2>1. \A s \in SUBSET (1..n) : s # {} => Max(s) \in 1..n
    BY <1>1, MaxIn
  <2>2. ASSUME NEW s \in SUBSET (1..n), s # {}
        PROVE  g[<<f[s \ {Max(s)}], lines[Max(s)]>>] = SetDefault(f[s \ {Max(s)}], lines[Max(s)])
    <3>1. f[s \ {Max(s)}] \in Environment /\ lines[Max(s)] \in Assignment
      BY <1>1, <2>1, <2>2
    <3> QED
      BY <3>1
  <2> QED
    BY <1>1, <1>3, <2>2, Zenon DEF Folds
<1>5. PICK h : Iterates(h) /\ LoadDotenv(env, lines) = h[1..n]
  <2>1. LoadDotenv(env, lines) = (CHOOSE h : Iterates(h))[DOMAIN lines]
    BY DEF LoadDotenv, SetDefault, FoldLeft, MapThenFoldSet
  <2> HIDE DEF Iterates
  <2> QED
    BY <1>1, <1>4, <2>1
<1> DEFINE acc == [k \in 0..n |-> h[1..k]]
<1>6. \A k \in 0..n : 1..k \in SUBSET DOMAIN lines
  BY <1>1
<1>7. acc[0] = env
  <2>1. 1..0 = {} /\ acc[0] = h[1..0]
    BY <1>1
  <2>2. h[{}] = env
    BY <1>5, Zenon
  <2> QED
    BY <2>1, <2>2
<1>8. ASSUME NEW k \in 1..n PROVE acc[k] = SetDefault(acc[k - 1], lines[k])
  <2>1. /\ k \in 0..n /\ k - 1 \in 0..n /\ 1..k # {} /\ 1..k \in SUBSET DOMAIN lines
        /\ Max(1..k) = k /\ (1..k) \ {Max(1..k)} = 1..k - 1
    <3>1. k \in Nat /\ k # 0 /\ k \in 0..n /\ k - 1 \in 0..n /\ 1..k # {}
      BY <1>1
    <3> QED
      BY <1>6, <3>1, WithoutLast
  <2>2. h[1..k] = IF 1..k = {} THEN env
                  ELSE SetDefault(h[(1..k) \ {Max(1..k)}], lines[Max(1..k)])
    BY <1>5, <2>1, Zenon
  <2>3. h[1..k] = SetDefault(h[1..k - 1], lines[k])
    BY <2>1, <2>2, Zenon
  <2>4. acc[k] = h[1..k] /\ acc[k - 1] = h[1..k - 1]
    BY <2>1
  <2> QED
    BY <2>3, <2>4, Zenon
<1>9. acc[n] = LoadDotenv(env, lines)
  <2>1. n \in 0..n
    BY <1>1
  <2>2. acc[n] = h[1..n]
    BY <2>1
  <2> QED
    BY <1>5, <2>2
<1> HIDE DEF acc
<1> QED
  BY <1>7, <1>8, <1>9, Zenon DEF n

\* What the operator gave v, in the environment or in the file.
GivenIn(env, lines, v, default) ==
  LET named == {i \in DOMAIN lines : lines[i].key = v}
  IN  IF v \in DOMAIN env THEN env[v]
      ELSE IF named = {} THEN default
      ELSE lines[CHOOSE i \in named : \A j \in named : i <= j].val

\* load_dotenv, for any file and any environment: a variable that was set stays as it
\* was, empty or not, and of the lines that name another the first one counts.
THEOREM LoadedIsGiven ==
  ASSUME NEW env \in Environment, NEW lines \in Seq(Assignment), NEW v, NEW default
  PROVE  Env(LoadDotenv(env, lines), v, default) = GivenIn(env, lines, v, default)
<1> DEFINE n == Len(lines)
           First(i) == lines[i].key = v /\ \A j \in 1..i - 1 : lines[j].key # v
<1>1. n \in Nat /\ DOMAIN lines = 1..n
  OBVIOUS
<1>2. PICK acc : /\ acc[0] = env /\ acc[n] = LoadDotenv(env, lines)
                 /\ \A k \in 1..n : acc[k] = SetDefault(acc[k - 1], lines[k])
  BY DotenvSteps
<1> DEFINE S == {k \in 0..n :
                   /\ v \in DOMAIN env => v \in DOMAIN acc[k] /\ acc[k][v] = env[v]
                   /\ v \notin DOMAIN env =>
                        /\ v \in DOMAIN acc[k] <=> \E i \in 1..k : lines[i].key = v
                        /\ \A i \in 1..k : First(i) => acc[k][v] = lines[i].val}
<1> HIDE DEF n
<1>3. 0 \in S
  BY <1>1, <1>2
<1>4. ASSUME NEW k \in 1..n, k - 1 \in S PROVE k \in S
  <2>1. acc[k] = SetDefault(acc[k - 1], lines[k])
    BY <1>2
  <2>2. /\ DOMAIN acc[k] = DOMAIN acc[k - 1] \cup {lines[k].key}
        /\ \A u \in DOMAIN acc[k - 1] : acc[k][u] = acc[k - 1][u]
        /\ lines[k].key \notin DOMAIN acc[k - 1] => acc[k][lines[k].key] = lines[k].val
    <3> DEFINE before == acc[k - 1]
               line == lines[k]
               after == SetDefault(before, line)
    <3> HIDE DEF before, line
    <3>1. /\ DOMAIN after = DOMAIN before \cup {line.key}
          /\ \A u \in DOMAIN before : after[u] = before[u]
          /\ line.key \notin DOMAIN before => after[line.key] = line.val
      BY SetDefaultIs, Zenon
    <3>2. acc[k] = after
      BY <2>1 DEF before, line
    <3> HIDE DEF after
    <3> QED
      BY <3>1, <3>2 DEF before, line
  <2>3. k \in 0..n /\ k \in Int /\ \A i \in 1..k : i = k \/ i \in 1..k - 1
    BY <1>1
  <2>4. v \in DOMAIN env => v \in DOMAIN acc[k] /\ acc[k][v] = env[v]
    BY <1>4, <2>2
  <2>5. ASSUME v \notin DOMAIN env
        PROVE  /\ v \in DOMAIN acc[k] <=> \E i \in 1..k : lines[i].key = v
               /\ \A i \in 1..k : First(i) => acc[k][v] = lines[i].val
    <3>1. /\ v \in DOMAIN acc[k - 1] <=> \E i \in 1..k - 1 : lines[i].key = v
          /\ \A i \in 1..k - 1 : First(i) => acc[k - 1][v] = lines[i].val
      BY <1>4, <2>5
    <3>2. v \in DOMAIN acc[k] <=> \E i \in 1..k : lines[i].key = v
      <4>1. k \in 1..k /\ \A i \in 1..k - 1 : i \in 1..k
        BY <2>3
      <4> QED
        BY <2>2, <2>3, <3>1, <4>1
    <3>3. ASSUME NEW i \in 1..k, First(i) PROVE acc[k][v] = lines[i].val
      <4>1. CASE i = k
        <5>1. v \notin DOMAIN acc[k - 1] /\ lines[k].key = v
          BY <3>1, <3>3, <4>1
        <5> QED
          BY <2>2, <4>1, <5>1
      <4>2. CASE i \in 1..k - 1
        <5>1. v \in DOMAIN acc[k - 1] /\ acc[k - 1][v] = lines[i].val
          BY <3>1, <3>3, <4>2
        <5> QED
          BY <2>2, <5>1
      <4> QED
        BY <2>3, <4>1, <4>2
    <3> QED
      BY <3>2, <3>3
  <2> QED
    BY <2>3, <2>4, <2>5
<1> HIDE DEF S
<1>5. \A k \in 0..n : k \in S
  BY <1>1, <1>3, <1>4, StepByStep, Zenon
<1>6. n \in S
  BY <1>1, <1>5
<1> DEFINE named == {i \in DOMAIN lines : lines[i].key = v}
           loaded == LoadDotenv(env, lines)
<1>7. CASE v \in DOMAIN env
  <2>1. v \in DOMAIN loaded /\ loaded[v] = env[v]
    BY <1>2, <1>6, <1>7 DEF S
  <2> QED
    BY <1>7, <2>1 DEF Env, GivenIn
<1>8. CASE v \notin DOMAIN env /\ named = {}
  <2>1. v \notin DOMAIN loaded
    BY <1>1, <1>2, <1>6, <1>8 DEF S
  <2> QED
    BY <1>8, <2>1 DEF Env, GivenIn
<1>9. CASE v \notin DOMAIN env /\ named # {}
  <2> DEFINE least == CHOOSE i \in named : \A j \in named : i <= j
  <2>1. named \subseteq Nat
    BY <1>1
  <2>2. least \in named /\ \A j \in named : least <= j
    <3> HIDE DEF named
    <3>1. \E i \in named : \A j \in named : i <= j
      BY <1>9, <2>1, LeastExists
    <3> QED
      BY <3>1, Zenon
  <2> HIDE DEF least
  <2>3. least \in 1..n /\ First(least)
    BY <1>1, <2>2
  <2>4. v \in DOMAIN loaded /\ loaded[v] = lines[least].val
    BY <1>2, <1>6, <1>9, <2>3 DEF S
  <2>5. GivenIn(env, lines, v, default) = lines[least].val
    BY <1>9 DEF GivenIn, least
  <2> QED
    BY <2>4, <2>5 DEF Env
<1> QED
  BY <1>7, <1>8, <1>9
-----------------------------------------------------------------------------
\* The environment is as the process found it until the file is read, and as read
\* from then on; an identity is of the key and in the tenant that it says, and there
\* is one when the process serves stdio.
Configured ==
  /\ started \in Environment /\ dotenv \in Seq(Assignment)
  /\ life = "load" => environ = started /\ identity = None
  /\ life # "load" => environ = LoadDotenv(started, dotenv)
  /\ life = "stdio" => identity # None
  /\ identity # None =>
       /\ identity.user = Issued[config.mcp_key]
       /\ identity.tenant = config.tenant
       /\ identity.roles = {} => identity.user \in ServicePrincipals(config)

LEMMA StartsConfigured == Init => Configured
<1> SUFFICES ASSUME Init PROVE Configured
  OBVIOUS
<1>1. started \in Environment
  BY EnvironsAssumption DEF Init, Environment
<1>2. dotenv \in Seq(Assignment)
  BY DotenvsAssumption DEF Init, Assignment
<1> QED
  BY <1>1, <1>2 DEF Init, Configured

LEMMA StaysConfigured == ASSUME Configured, [Next]_vars PROVE Configured'
<1>1. started' = started /\ dotenv' = dotenv
  BY DEF Next, vars, boot, Boot, Load, Verified, NotVerified, Resolved, Bound,
         BindFails, ResolveRaises, Start, ToolRequest, ToolDone, Arrive, OnLoop, Checks, Forbidden, Healthz,
         Metrics, Readyz, CheckCore, AskLdap, CheckLdap, Conclude, Reply, Goes, Changes
<1>2. started' \in Environment /\ dotenv' \in Seq(Assignment)
  BY <1>1 DEF Configured
<1>3. CASE UNCHANGED boot
  <2>1. environ' = environ /\ life' = life /\ target' = target /\ identity' = identity /\ config' = config
    BY <1>3 DEF boot, config
  <2> QED
    BY <1>1, <1>2, <2>1 DEF Configured
<1>4. CASE Load
  <2>1. /\ environ' = LoadDotenv(started', dotenv') /\ identity' = None
        /\ life' # "load" /\ life' # "stdio"
    BY <1>1, <1>4 DEF Load, Configured
  <2> QED
    BY <1>2, <2>1 DEF Configured
<1>5. ASSUME Verified \/ NotVerified \/ Bound \/ BindFails \/ ResolveRaises PROVE Configured'
  <2>1. /\ environ' = environ /\ identity' = identity
        /\ life # "load" /\ life' # "load" /\ life' # "stdio"
    BY <1>5 DEF Verified, NotVerified, Bound, BindFails, ResolveRaises
  <2>2. config' = config
    BY <2>1 DEF config
  <2> QED
    BY <1>1, <1>2, <2>1, <2>2 DEF Configured
<1>6. CASE Resolved
  <2>1. /\ environ' = environ /\ life # "load" /\ life' # "load" /\ life' # "stdio"
    BY <1>6 DEF Resolved
  <2>2. config' = config
    BY <2>1 DEF config
  <2>3. PICK known \in BOOLEAN, roles \in SUBSET Role :
          identity' = IF known /\ (roles # {} \/ Issued[config.mcp_key] \in ServicePrincipals(config))
                      THEN [user |-> Issued[config.mcp_key], tenant |-> config.tenant, roles |-> roles]
                      ELSE None
    BY <1>6 DEF Resolved
  <2>4. identity' # None =>
          /\ identity'.user = Issued[config.mcp_key]
          /\ identity'.tenant = config.tenant
          /\ identity'.roles = {} => identity'.user \in ServicePrincipals(config)
    BY <2>3
  <2> QED
    BY <1>1, <1>2, <2>1, <2>2, <2>4 DEF Configured
<1>7. CASE Start
  <2>1. /\ environ' = environ /\ identity' = identity /\ life # "load" /\ life' # "load"
        /\ life' = "stdio" => identity # None
    BY <1>7 DEF Start
  <2>2. config' = config
    BY <2>1 DEF config
  <2> QED
    BY <1>1, <1>2, <2>1, <2>2 DEF Configured
<1>8. \/ UNCHANGED boot \/ Load \/ Verified \/ NotVerified \/ Bound \/ BindFails \/ ResolveRaises
      \/ Resolved \/ Start
  BY DEF Next, vars, Boot, ToolRequest, ToolDone, Arrive, OnLoop, Checks, Forbidden, Healthz,
         Metrics, Readyz, CheckCore, AskLdap, CheckLdap, Conclude, Reply, Goes, Changes
<1> QED
  BY <1>3, <1>4, <1>5, <1>6, <1>7, <1>8

\* What the settings are made of is what the operator gave.
LEMMA ReadAsGiven ==
  ASSUME Configured, life # "load", NEW v, NEW default
  PROVE  Env(environ, v, default) = Given(v, default)
<1>1. Env(environ, v, default) = GivenIn(started, dotenv, v, default)
  BY LoadedIsGiven, Zenon DEF Configured
<1> QED
  BY <1>1 DEF Given, GivenIn

LEMMA ConfiguredBoots == Configured => BootsAsConfigured
<1> SUFFICES ASSUME Configured PROVE BootsAsConfigured
  OBVIOUS
<1>1. ASSUME life # "load"
      PROVE  /\ Given("MCP_READ_ONLY", "0") \in {"1", "true", "yes"} <=> config.read_only
             /\ config.allowlist = {Given("MCP_SUBTREE_ALLOWLIST", "")} \ {""}
  <2>1. config.read_only = (Env(environ, "MCP_READ_ONLY", "0") \in {"1", "true", "yes"})
    BY Zenon DEF config, Config
  <2>2. config.allowlist = {Env(environ, "MCP_SUBTREE_ALLOWLIST", "")} \ {""}
    BY Zenon DEF config, Config, Listed
  <2>3. Env(environ, "MCP_READ_ONLY", "0") = Given("MCP_READ_ONLY", "0")
    BY <1>1, ReadAsGiven, Zenon
  <2>4. Env(environ, "MCP_SUBTREE_ALLOWLIST", "") = Given("MCP_SUBTREE_ALLOWLIST", "")
    BY <1>1, ReadAsGiven, Zenon
  <2> QED
    BY <2>1, <2>2, <2>3, <2>4, Zenon
<1>2. ASSUME identity # None
      PROVE  /\ identity.user = Issued[Given("FILEENGINE_MCP_KEY", "")]
             /\ identity.tenant = Given("FILEENGINE_MCP_TENANT", "default")
             /\ identity.roles = {} =>
                  identity.user \in {Given("FILEENGINE_SERVICE_PRINCIPALS", ""),
                                     Given("FILEENGINE_MCP_USER", Given("FILEENGINE_LDAP_USER", ""))}
  <2>1. life # "load"
    BY <1>2 DEF Configured
  <2>2. /\ config.mcp_key = Env(environ, "FILEENGINE_MCP_KEY", "")
        /\ config.tenant = Env(environ, "FILEENGINE_MCP_TENANT", "default")
        /\ config.service_principals = Listed(Env(environ, "FILEENGINE_SERVICE_PRINCIPALS", ""))
        /\ config.agent_user = Env(environ, "FILEENGINE_MCP_USER", Env(environ, "FILEENGINE_LDAP_USER", ""))
    BY Zenon DEF config, Config, AgentUser
  <2>3. \A v, default : Env(environ, v, default) = Given(v, default)
    BY <2>1, ReadAsGiven
  <2>4. config.mcp_key = Given("FILEENGINE_MCP_KEY", "")
    BY <2>2, <2>3, Zenon
  <2>5. config.tenant = Given("FILEENGINE_MCP_TENANT", "default")
    BY <2>2, <2>3, Zenon
  <2>6. config.service_principals = Listed(Given("FILEENGINE_SERVICE_PRINCIPALS", ""))
    BY <2>2, <2>3, Zenon
  <2>7. config.agent_user = Given("FILEENGINE_MCP_USER", Given("FILEENGINE_LDAP_USER", ""))
    BY <2>2, <2>3, Zenon
  <2>8. ServicePrincipals(config) \subseteq
          {Given("FILEENGINE_SERVICE_PRINCIPALS", ""),
           Given("FILEENGINE_MCP_USER", Given("FILEENGINE_LDAP_USER", ""))}
    BY <2>6, <2>7, Zenon DEF ServicePrincipals, Listed
  <2>9. /\ identity.user = Issued[config.mcp_key]
        /\ identity.tenant = config.tenant
        /\ identity.roles = {} => identity.user \in ServicePrincipals(config)
    BY <1>2 DEF Configured
  <2>10. identity.user = Issued[Given("FILEENGINE_MCP_KEY", "")]
    BY <2>4, <2>9, Zenon
  <2>11. identity.tenant = Given("FILEENGINE_MCP_TENANT", "default")
    BY <2>5, <2>9, Zenon
  <2> QED
    BY <2>8, <2>9, <2>10, <2>11, Zenon
<1>3. life = "stdio" => identity # None
  BY DEF Configured
<1> QED
  BY <1>1, <1>2, <1>3, Zenon DEF BootsAsConfigured

\* Over stdio or HTTP, the process is whom it was told to be, in the tenant it was
\* told, and is read-only and confined as it was told, for any environment and any
\* file: the environment first, then the first line that names a variable.
THEOREM BootsAsTold == Spec => []BootsAsConfigured
<1>1. Configured /\ [Next]_vars => Configured'
  BY StaysConfigured
<1> QED
  BY <1>1, StartsConfigured, ConfiguredBoots, PTL DEF Spec

\* An answer that is not of /metrics, or a page of it.
LEMMA PageKept == ASSUME TypeOK, PageComplete, [Next]_vars PROVE PageComplete'
<1>1. CASE answer' = answer
  BY <1>1 DEF PageComplete
<1>2. ASSUME NEW p \in Prober, NEW path \in Path, NEW addr \in Addr, Arrive(p, path, addr)
      PROVE  PageComplete'
  <2>1. answer' = [answer EXCEPT ![p] = None]
    BY <1>2 DEF Arrive
  <2>2. answer'[p] = None /\ \A q \in Prober \ {p} : answer'[q] = answer[q]
    BY <2>1 DEF TypeOK
  <2> QED
    BY <2>2 DEF PageComplete
<1>3. ASSUME NEW p \in Prober, NEW code, NEW page, Reply(p, code, page),
             probe[p].path = "metrics" /\ code = 200 =>
               /\ WellFormed(page.lines) /\ SaysWhatFailed(page.lines)
               /\ ShowsWhatWasRead(page.lines, page.reading)
      PROVE  PageComplete'
  <2>1. answer' = [answer EXCEPT ![p] = [path |-> probe[p].path, code |-> code, page |-> page]]
    BY <1>3 DEF Reply
  <2>2. /\ answer'[p].path = probe[p].path /\ answer'[p].code = code /\ answer'[p].page = page
        /\ \A q \in Prober \ {p} : answer'[q] = answer[q]
    BY <2>1 DEF TypeOK
  <2> QED
    BY <1>3, <2>2 DEF PageComplete
<1>4. ASSUME NEW p \in Prober, OnLoop(p) PROVE answer' = answer \/ PageComplete'
  <2>1. CASE Forbidden(p)
    <3>1. Reply(p, 403, None) /\ 403 # 200
      BY <2>1 DEF Forbidden
    <3> QED
      BY <1>3, <3>1
  <2>2. CASE Healthz(p)
    <3>1. Reply(p, 200, None) /\ probe[p].path # "metrics"
      BY <2>2 DEF Healthz, Begins
    <3> QED
      BY <1>3, <3>1
  <2>3. CASE Metrics(p)
    <3>1. PICK reading \in Readings, n \in 0..Len(ServiceGauges) :
            Reply(p, 200, [lines |-> Render(reading, n), reading |-> reading])
      BY <2>3 DEF Metrics
    <3> DEFINE page == [lines |-> Render(reading, n), reading |-> reading]
    <3>2. /\ page.lines = Render(reading, n) /\ page.reading = reading
          /\ Reply(p, 200, page)
      BY <3>1
    <3> HIDE DEF page
    <3>3. /\ WellFormed(page.lines) /\ SaysWhatFailed(page.lines)
          /\ ShowsWhatWasRead(page.lines, page.reading)
      BY <3>2, RenderComplete
    <3> QED
      BY <1>3, <3>2, <3>3
  <2>4. CASE Readyz(p) \/ AskLdap(p)
    BY <2>4 DEF Readyz, AskLdap, Goes
  <2>5. CASE Conclude(p)
    <3>1. probe[p].path # "metrics"
      BY <2>5 DEF Conclude, At, TypeOK
    <3>2. PICK code : Reply(p, code, None)
      BY <2>5 DEF Conclude
    <3> QED
      BY <1>3, <3>1, <3>2
  <2> QED
    BY <1>4, <2>1, <2>2, <2>3, <2>4, <2>5 DEF OnLoop
<1>5. \/ answer' = answer
      \/ \E p \in Prober, path \in Path, addr \in Addr : Arrive(p, path, addr)
      \/ \E p \in Prober : OnLoop(p)
  BY DEF Next, vars, serving, Boot, Load, Verified, NotVerified, Resolved, Bound,
         BindFails, ResolveRaises, Start, ToolRequest, ToolDone, Checks, CheckCore, CheckLdap, Goes, Changes
<1> QED
  BY <1>1, <1>2, <1>4, <1>5

\* The page of /metrics is there, in the format, with the service's gauges or word of
\* their failure and with what was read of the process, for any number of probes.
THEOREM PagesComplete == Spec => []PageComplete
<1>1. Init => PageComplete
  BY DEF Init, PageComplete
<1>2. TypeOK /\ PageComplete /\ [Next]_vars => PageComplete'
  BY PageKept
<1> QED
  BY <1>1, <1>2, TypeCorrect, PTL DEF Spec
=============================================================================
