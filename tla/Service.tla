------------------------------- MODULE Service -------------------------------
(***************************************************************************)
(* The life of the process: server.py reads its settings and tries to make *)
(* an identity of its own while it is imported, then serves stdio or HTTP; *)
(* over HTTP, http_app.py answers the monitoring routes beside the requests *)
(* that Door admits.                                                       *)
(*                                                                         *)
(* The event loop runs one thing at a time.  A tool request holds it until *)
(* its synchronous calls are over; a monitoring probe takes it for a step, *)
(* and /readyz waits off the loop while a thread looks at the core, then   *)
(* another at the directory.  The peers go down and come back at any time. *)
(*                                                                         *)
(* Operators named X_Remark are deviations of the X that follows them.     *)
(***************************************************************************)
EXTENDS Settings, Exposition, ClientIp

CONSTANTS
  Environs,    \* environments the process may be started in
  Dotenvs,     \* .env files it may find
  Issued,      \* Issued[k]: the uid that ldap_manager knows the key k of, with its secret
  Role,
  Prober,      \* connections that ask for monitoring routes
  Addr,        \* addresses they, and clients and proxies, have
  Covers,      \* Covers[v]: the addresses that v covers, as a list of networks
  Readings,    \* bound: what becomes of reading /proc at a scrape
  None         \* nobody, nothing

Peers == {"core", "primary", "replica"}
Path  == {"healthz", "readyz", "metrics"}
Transport == {"stdio", "http"}
Life  == {"load", "verify", "bind", "search", "start", "exited", "crashed"} \cup Transport
Phase == {"arrived", "core", "core_done", "ldap", "ldap_done"}
Code  == {200, 403, 503}

ASSUME CoversAssumption    == "" \in DOMAIN Covers /\ Covers[""] = {}
ASSUME ReadingsAssumption  == Readings \subseteq Reading

\* Variables and their values are strings, and so are the two sides of a line.
ASSUME EnvironsAssumption  ==
  \A e \in Environs : DOMAIN e \subseteq STRING /\ e \in [DOMAIN e -> STRING]
ASSUME DotenvsAssumption   == Dotenvs \subseteq Seq([key : STRING, val : STRING])

VARIABLES
  environ,   \* os.environ
  dotenv,    \* the .env file
  transport, \* the entry point: main (stdio) or main_http
  started,   \* os.environ as the process found it (history)
  life,      \* how far the process has come
  target,    \* the directory that the bootstrap asks
  identity,  \* the process identity, user and roles in config.tenant
  up,        \* the peers that answer (external)
  request,   \* the tool request that holds the loop
  probe,     \* probe[p]: p's monitoring request in progress
  answer,    \* answer[p]: the last answer to p, with what was read for a page (history)
  seen       \* seen[p]: <<d, b>> if d was up (b) or down (~b) during p's /readyz (history)

boot    == <<transport, environ, dotenv, started, life, target, identity>>
serving == <<request, probe, answer, seen>>
vars    == <<boot, up, serving>>

config == Config(environ)

Init ==
  /\ transport \in Transport
  /\ started \in Environs /\ environ = started /\ dotenv \in Dotenvs
  /\ life = "load" /\ target = "primary" /\ identity = None
  /\ up \in [Peers -> BOOLEAN]
  /\ request = None
  /\ probe = [p \in Prober |-> None] /\ answer = [p \in Prober |-> None]
  /\ seen = [p \in Prober |-> {}]
-----------------------------------------------------------------------------
(* server.py, imported.                                                    *)

\* load_dotenv(); Config().  Without a key and a secret nothing is asked.
Load ==
  /\ life = "load"
  /\ environ' = LoadDotenv(environ, dotenv)
  /\ life' = IF config'.mcp_key # "" /\ config'.mcp_secret # "" THEN "verify" ELSE "start"
  /\ UNCHANGED <<transport, dotenv, started, target, identity, up, serving>>

\* The key:secret is verified (ServiceCred), if there is a manager that answers, ...
Verified ==
  /\ life = "verify" /\ config.manager /\ config.mcp_key \in DOMAIN Issued
  /\ life' = "bind"
  /\ UNCHANGED <<transport, environ, dotenv, started, target, identity, up, serving>>

\* ... or there is none, or it refuses: no uid, and no exception either.
NotVerified ==
  /\ life = "verify"
  /\ life' = "start"
  /\ UNCHANGED <<transport, environ, dotenv, started, target, identity, up, serving>>

\* resolve_roles for that uid (LdapFailover), step by step: what the bind comes to ...
Bound ==
  /\ life = "bind" /\ up[target]
  /\ life' = "search"
  /\ UNCHANGED <<transport, environ, dotenv, started, target, identity, up, serving>>

\* ... when the directory is down: the replica is next, if there is one, or nobody.
BindFails ==
  /\ life = "bind" /\ ~up[target]
  /\ IF target = "primary" /\ config.replica_enabled
       THEN target' = "replica" /\ UNCHANGED life
       ELSE life' = "start" /\ UNCHANGED target
  /\ UNCHANGED <<transport, environ, dotenv, started, identity, up, serving>>

\* The directory knows the uid or not, and its roles in the tenant; ...
Resolved ==
  /\ life = "search" /\ up[target]
  /\ \E known \in BOOLEAN, roles \in SUBSET Role :
       LET uid == Issued[config.mcp_key]
       IN  identity' = IF known /\ (roles # {} \/ uid \in ServicePrincipals(config))
                       THEN [user |-> uid, tenant |-> config.tenant, roles |-> roles]
                       ELSE None
  /\ life' = "start"
  /\ UNCHANGED <<transport, environ, dotenv, started, target, up, serving>>

\* ... or it is gone since it took the bind, and the search raises: nothing catches
\* that.
ResolveRaises ==
  /\ life = "search" /\ ~up[target]
  /\ life' = "crashed"
  /\ UNCHANGED <<transport, environ, dotenv, started, target, identity, up, serving>>

\* main refuses to serve without an identity, main_http does not need one.
Start ==
  /\ life = "start"
  /\ life' = IF transport = "http" THEN "http"
             ELSE IF identity = None THEN "exited" ELSE "stdio"
  /\ UNCHANGED <<transport, environ, dotenv, started, target, identity, up, serving>>
-----------------------------------------------------------------------------
(* http_app.py, serving.                                                   *)

Free == life = "http" /\ request = None

Trusted == Covers[Env(environ, "FILEENGINE_TRUSTED_PROXIES", "")]

\* A tool request, past Door, with the client's address for the core's audit.  It
\* comes from a client, with a header of its own perhaps, through proxies.
ToolRequest(client, sent, proxies) ==
  /\ Free
  /\ request' = [client |-> client,
                 source |-> ResolveClientIp(Trusted, Peer(client, proxies),
                                            Hops(sent, client, proxies))]
  /\ UNCHANGED <<boot, up, probe, answer, seen>>

ToolDone ==
  /\ request # None /\ request' = None
  /\ UNCHANGED <<boot, up, probe, answer, seen>>

\* monitoring_allowlist: no list, no restriction.
MayMonitor(addr) ==
  LET allow == Covers[Env(environ, "FILEENGINE_MONITORING_ALLOW_IPS", "")]
  IN  allow = {} \/ addr \in allow

Arrive(p, path, addr) ==
  /\ life = "http" /\ probe[p] = None
  /\ probe' = [probe EXCEPT ![p] = [path |-> path, allowed |-> MayMonitor(addr),
                                    phase |-> "arrived", core |-> FALSE, ldap |-> FALSE]]
  /\ answer' = [answer EXCEPT ![p] = None]
  /\ seen' = [seen EXCEPT ![p] = IF path = "readyz" THEN {<<d, up[d]>> : d \in Peers} ELSE {}]
  /\ UNCHANGED <<boot, up, request>>

At(p, phase) == probe[p] # None /\ probe[p].phase = phase

Reply(p, code, page) ==
  /\ answer' = [answer EXCEPT ![p] = [path |-> probe[p].path, code |-> code, page |-> page]]
  /\ probe' = [probe EXCEPT ![p] = None]
  /\ UNCHANGED <<boot, up, request, seen>>

Goes(p, to) ==
  /\ probe' = [probe EXCEPT ![p] = to]
  /\ UNCHANGED <<boot, up, request, answer, seen>>

Forbidden(p) ==
  /\ Free /\ At(p, "arrived") /\ ~probe[p].allowed
  /\ Reply(p, 403, None)

Begins(p, path) == Free /\ At(p, "arrived") /\ probe[p].allowed /\ probe[p].path = path

Healthz(p) == Begins(p, "healthz") /\ Reply(p, 200, None)

Metrics(p) ==
  /\ Begins(p, "metrics")
  /\ \E reading \in Readings, n \in 0..Len(ServiceGauges) :
       Reply(p, 200, [lines |-> Render(reading, n), reading |-> reading])

Readyz(p) == Begins(p, "readyz") /\ Goes(p, [probe[p] EXCEPT !.phase = "core"])

CheckCore_NoTimeout(p) ==
  /\ At(p, "core") /\ up["core"]
  /\ Goes(p, [probe[p] EXCEPT !.phase = "core_done", !.core = TRUE])

\* A thread waits for the channel for two seconds at most, and has its answer.
CheckCore(p) ==
  At(p, "core") /\ Goes(p, [probe[p] EXCEPT !.phase = "core_done", !.core = up["core"]])

AskLdap(p) == Free /\ At(p, "core_done") /\ Goes(p, [probe[p] EXCEPT !.phase = "ldap"])

\* Another connects to the primary directory, the only one it knows of.
CheckLdap(p) ==
  At(p, "ldap") /\ Goes(p, [probe[p] EXCEPT !.phase = "ldap_done", !.ldap = up["primary"]])

Conclude_Any(p) ==
  /\ Free /\ At(p, "ldap_done")
  /\ Reply(p, IF probe[p].core \/ probe[p].ldap THEN 200 ELSE 503, None)

Conclude(p) ==
  /\ Free /\ At(p, "ldap_done")
  /\ Reply(p, IF probe[p].core /\ probe[p].ldap THEN 200 ELSE 503, None)
-----------------------------------------------------------------------------
Changes(d) ==
  /\ up' = [up EXCEPT ![d] = ~@]
  /\ seen' = [p \in Prober |-> IF probe[p] # None /\ probe[p].path = "readyz"
                               THEN seen[p] \cup {<<d, up'[d]>>} ELSE seen[p]]
  /\ UNCHANGED <<boot, request, probe, answer>>

Boot == \/ Load \/ Verified \/ NotVerified
        \/ Bound \/ BindFails \/ Resolved \/ ResolveRaises
        \/ Start

OnLoop(p) == Forbidden(p) \/ Healthz(p) \/ Metrics(p) \/ Readyz(p) \/ AskLdap(p) \/ Conclude(p)

Checks(p) == CheckCore(p) \/ CheckLdap(p)

\* The ways a request comes: direct, or by one or two trusted proxies.
Untrusted == Addr \ Trusted
Routes    == {<<>>} \cup {<<e>> : e \in Trusted} \cup (Trusted \X Trusted)

Next ==
  \/ Boot
  \/ \E client \in Untrusted, proxies \in Routes :
       \E sent \in {<<>>} \cup {<<a>> : a \in Addr} : ToolRequest(client, sent, proxies)
  \/ ToolDone
  \/ \E p \in Prober, path \in Path, addr \in Addr : Arrive(p, path, addr)
  \/ \E p \in Prober : OnLoop(p) \/ Checks(p)
  \/ \E d \in Peers : Changes(d)
  \/ life \in {"exited", "crashed"} /\ UNCHANGED vars

\* A tool's calls return or fail; a check ends within its two seconds; the loop
\* runs what is ready in the order it became so.
Fairness ==
  /\ WF_vars(ToolDone)
  /\ \A p \in Prober : WF_vars(Checks(p)) /\ SF_vars(OnLoop(p))

Spec == Init /\ [][Next]_vars /\ Fairness
-----------------------------------------------------------------------------
Probe ==
  [path : Path, allowed : BOOLEAN, phase : Phase, core : BOOLEAN, ldap : BOOLEAN]

\* Every variable holds what it should; no list has an empty member, and only
\* /readyz leaves the loop while it is answered.
TypeOK ==
  /\ life \in Life /\ target \in {"primary", "replica"} /\ up \in [Peers -> BOOLEAN]
  /\ identity = None \/ identity.roles \subseteq Role
  /\ "" \notin config.allowlist \cup ServicePrincipals(config)
  /\ request = None \/ life = "http"
  /\ probe \in [Prober -> Probe \cup {None}]
  /\ \A p \in Prober :
       probe[p] = None \/ probe[p].phase = "arrived" \/ probe[p].path = "readyz"
  /\ seen \in [Prober -> SUBSET (Peers \X BOOLEAN)]
  /\ DOMAIN answer = Prober
  /\ \A p \in Prober :
       answer[p] = None \/ (answer[p].path \in Path /\ answer[p].code \in Code)

\* What the operator gave v: the environment is asked first, then the first line
\* of the file that names it.
Given(v, default) ==
  LET lines == {i \in DOMAIN dotenv : dotenv[i].key = v}
  IN  IF v \in DOMAIN started THEN started[v]
      ELSE IF lines = {} THEN default
      ELSE dotenv[CHOOSE i \in lines : \A j \in lines : i <= j].val

\* The process acts as nobody but the owner of the key it was given, in the tenant
\* it was given, without a role only as an exempt principal; it never serves stdio
\* as nobody; and it is read-only if it was told to be, wherever it was told.
BootsAsConfigured ==
  /\ life = "stdio" => identity # None
  /\ identity # None =>
       /\ identity.user = Issued[Given("FILEENGINE_MCP_KEY", "")]
       /\ identity.tenant = Given("FILEENGINE_MCP_TENANT", "default")
       /\ identity.roles = {} =>
            identity.user \in {Given("FILEENGINE_SERVICE_PRINCIPALS", ""),
                               Given("FILEENGINE_MCP_USER", Given("FILEENGINE_LDAP_USER", ""))}
  /\ life # "load" =>
       /\ Given("MCP_READ_ONLY", "0") \in {"1", "true", "yes"} <=> config.read_only
       /\ config.allowlist = {Given("MCP_SUBTREE_ALLOWLIST", "")} \ {""}

Saw(p, d, b) == <<d, b>> \in seen[p]

\* 200 from /readyz means that the core and the primary were each up at some moment
\* of the probe, 503 that one of them was down at some moment of it.
ReadyWasTrue ==
  \A p \in Prober :
    probe[p] = None /\ answer[p] # None /\ answer[p].path = "readyz" =>
      /\ answer[p].code = 200 => Saw(p, "core", TRUE) /\ Saw(p, "primary", TRUE)
      /\ answer[p].code = 503 => Saw(p, "core", FALSE) \/ Saw(p, "primary", FALSE)

\* The address that the core audits for a tool request is the client's, whatever
\* header the client sent and whichever trusted proxies it came through.
SourceIsClient == request # None /\ Trusted # {} => request.source = request.client

\* Whatever becomes of reading /proc and wherever the collector stops, the page of
\* /metrics is there and keeps the format; each gauge of the service is on it, or it
\* says that they failed; and of the process everything is that was read before the
\* reading raised.  The process gauges that are missing are so without a word.
PageComplete ==
  \A p \in Prober :
    answer[p] # None /\ answer[p].path = "metrics" /\ answer[p].code = 200 =>
      LET page == answer[p].page.lines
      IN  /\ WellFormed(page) /\ SaysWhatFailed(page)
          /\ ShowsWhatWasRead(page, answer[p].page.reading)

\* Every monitoring request is answered, whoever is down and however often.
EveryProbeAnswered == \A p \in Prober : probe[p] # None ~> probe[p] = None
-----------------------------------------------------------------------------
\* _ldap_targets with a fresh breaker: whom the roles may be read from.
Directories == {"primary"} \cup (IF config.replica_enabled THEN {"replica"} ELSE {})

\* http_app.py: /readyz is "Readiness: the dependencies this server cannot serve a
\* request without", so 503 would mean that it could not serve one: the core was
\* down, or every directory that roles are resolved from.
ReadyWhenServable ==
  \A p \in Prober :
    probe[p] = None /\ answer[p] # None /\ answer[p].path = "readyz" /\ answer[p].code = 503 =>
      Saw(p, "core", FALSE) \/ \A d \in Directories : Saw(p, d, FALSE)

\* server.py: "the bootstrap authentication below is BEST-EFFORT: if it fails [...]
\* we start anyway with no process identity/client. stdio's main() refuses to serve
\* without one; the HTTP transport does not need one."  So it never ends a process that
\* is to serve HTTP.
BootstrapIsBestEffort == transport = "http" => life # "crashed"
=============================================================================
