# Verification of the FileEngine MCP server

TLA+ models of `fileengine_mcp`, the MCP server of FileEngine: the program that lets an
agent reach a tenant's files over MCP, and that decides whom it lets in. The modules are
translated from `src/src/fileengine_mcp/`; file names below are relative to it.

## The system

| Component | Source | State it keeps | Operations | Modelled in |
| --- | --- | --- | --- | --- |
| Bearer-token store | `token_store.py` | token → (identity, expiry) | issue, resolve, revoke, stats | `TokenStore` |
| Tenant-state gate | `tenant_state.py` | tenant → (until, verdict, reason), the source | admits, set_source | `TenantGate` |
| Service-credential verifier | `service_cred_client.py` | (key, secret, tenant, scope) → (uid, expiry) | verify | `ServiceCred` |
| Role resolution, failover | `ldap_auth.py`, `failover.py`, `tenant_access.py` | the breaker's deadline | resolve_roles, authenticate, trip, reset | `LdapFailover`, `TenantAccess` |
| HTTP door | `http_auth.py`, `http_app.py`, `session.py` | the session context variable; owns the four above | middleware, `/auth/token`, `/whoami` | `Door` |
| Monitoring | `http_app.py`, `metrics.py` | none | `/healthz`, `/readyz`, `/metrics` | `Service`, `Exposition` |
| Tool guard, audit | `server.py`, `guards.py`, `audit.py` | the audit log | guarded, within_allowlist | `Subtree` |
| File tools, resources | `server.py`, `_client.py` | none; the core's store | 20 tools and 3 resources over core RPCs | `FileTools`, `Subtree` (partly) |
| Size and result caps | `guards.py` | none | read_capped, cap_write_bytes, cap_results | `FileTools` (not cap_results) |
| Client address | `netutil.py` | none | resolve_client_ip | `ClientIp`, `Service` |
| Convert-search-AI client | `csai_client.py` | none | search, get_text, status mapping | `CsaiClient`, `Subtree` |
| Bootstrap, configuration | `config.py`, `server.py` | settings and the process identity, read once | startup over stdio or HTTP | `Settings`, `Service` (partly) |

How a request goes. `AuthMiddleware` names the tenant (`extract_tenant`) and calls
`resolve_identity`. A bearer token is resolved in the store and must be of that tenant. A
key:secret is verified by ldap_manager (cached), then the roles its uid holds in that tenant
are read from LDAP, from the replica while the breaker says the primary is down. On both
paths the tenant's state comes last: the gate asks the core's registry (cached) and admits
only a live tenant. The identity becomes the session, a context variable that the tools read.
`POST /auth/token` takes the key:secret path up to the roles and issues a token that carries
them; it does not ask the gate.

A tool is wrapped by `guarded()`: when an allow-list is configured, each UID argument is
walked to the root by one `stat` per step; then the tool makes its RPCs; then one audit record
says ok, denied or error. Other doors work on the same store all along. `search` and
`read_text` ask convert_search_ai instead of the core.

The process reads its settings and verifies its own key while `server.py` is imported, then
serves stdio with the identity that came of it, or HTTP, which needs none. Over HTTP three
monitoring routes are answered without credentials, to the addresses on a list.

What is hard. All of authentication is synchronous calls on the one event-loop thread, so a
request holds the loop while credentials, groups and tenants change elsewhere; the
application behind the middleware is awaited, so other requests come between a session being
set and being read. Four caches of answers (tokens, verified credentials, verdicts, the
breaker) on two clocks: `time.time()`, which can be set, and `time.monotonic()`. Lookups that
are slow, lost or fail half way. Tools that take several RPCs to read what is true of one
moment. The list with source lines is `hazards` in `PROJECT.json`.

## The modules

`TokenStore` — `tokens` is `_tokens`; `Issue`, `Resolve`, `Revoke` are the methods, one step
each because each runs under the lock; `Stats` is `stats()`. `SetClock` steps the wall clock.
`minted`, `refused`, `elapsed` and `setback` are history: what was issued, what was refused
since, true time, and by how much the clock was put back.

`TenantGate` — `admits()` is split where it waits for the core: `CacheHit`, `Unwired` and
`RefuseEmpty` return at once; `Ask` has read the clock and sent the question, `CoreReplies` or
`CoreFails` is the far end, `Conclude` judges, caches and returns. `registry` is the core's,
changed at any point by `RegistryChanges`. `last[t][o]` is the last instant outcome `o` was
true of `t`. The core's states are strings of the registry, "not_found" stands for
`found = false`, "failed" for an exception.

`ServiceCred` — `verify()` split at its lock and its HTTP call, for any number of callers at
once: `Begin` (reads the clock), `Hit` or `Send` (under the lock), `ManagerReplies` or
`CallFails` (the far end), `Verified` (stores under the lock) or `Denied`. The class takes a
lock and is built for threads, so its model has concurrent callers, more than the server of
today makes of it.

`FreshAnswer` — what both of those promise: yes only if yes was true since the question was
asked or less than `Window` before. `TenantGate` and `ServiceCred` each state
`ImplementsFreshAnswer`, with the refinement mapping in an `INSTANCE`; the window of the first
is `AdmitTTL`, of the second its TTL, plus what the wall clock was put back (`slack`).

`LdapFailover` — one `resolve_roles` or `authenticate` at a time, in LDAP operations: `Resolve`
(chooses the targets by the breaker) or `RefuseOffhand`, `Connect` or `Unreachable` (trips,
falls over), `FindUser`, `NoSuchUser` or `SearchRaises`, with a password `BindUser` or
`BindRejected`, `FindRoles`, whose search of the groups answers or fails. `proof` is the password
as far as a directory tells it apart. `authenticate` is modelled beside `resolve_roles` because
it shares the breaker and the targets; nothing in the server calls it today. `cfg`
is chosen once: with or without a replica, with any set of service principals. Directories go
down and up, users and groups are edited on the primary and replicated later, between any two of
those; `seen` is what either directory held of the user at any moment of the call.
`TenantAccess` holds `RolesFrom`, shared with `Door`.

`Door` — the whole path of a request. `loop` is the coroutine that has the event loop. A
request arrives (`Arrive`), takes the loop (`NoCredentials`, `Present` a token, `Ask` about a
key:secret), goes through `Verified`, `RolesForSession` or `RolesForToken`, to `Admitted` or
`Refused`, and, admitted, gives the loop up and is served later (`Serve`). It uses `TokenStore`
itself through an `INSTANCE`, and is proved to implement it; the verifier and the gate are replaced by what `FreshAnswer`
promises, which their own modules are checked to implement; role resolution is replaced by what
`LdapFailover!RolesHeldThere` says: the roles of the groups held at one moment, or none where the
group search failed (`failed`), which a service principal is served with. This is why the composition stays small. `session[r]` is
the context variable in the context of request `r`. The wall clock runs true in this module.

`Subtree` — one guarded call at a time (a tool is a plain function, run on the event loop) over
the core's tree. `Begin` has the targets; `Climb` is one `stat` of the walk, `Accept` and
`Reject` are the verdicts of `within_allowlist`; `Act` is the tool's RPC with its effect on the
tree, `Search` the query whose hits are then walked one by one, `ReadText` the other request to
convert_search_ai and `AskedInVain` whatever else either comes to: `CsaiClient` says which status
raises what, and which of that a tool makes a refusal. `Raise` and `ToolRefuses` are the two
kinds of exception, `Return` writes the audit record. `OthersChange` creates, moves,
deletes or undeletes one entity between any two of those. `Inside` is the reference definition
of what the walk is for. `inside`, `outside` and `changes` in a call are history. The three
resources (`server.py:523-540`) do not go through `guarded()`: neither walked nor recorded,
they are no part of this module.

`FileTools` — one file, its history, and the tools of more than one RPC: `Count`, `Put`,
`Recount` of `write_file`; `Restore`, the append of `restore_version`; `LookUp`, `OpenVersion` of `read_version`; `OpenCurrent`
or `OpenResource`, then `Chunk` by `Chunk` to `EndOfStream`; `AskPermission`, `AskExists` of
`check_permission`. Others write, cull, delete, undelete and edit the ACL in between; any RPC
may fail, and the reply of one that appended may be lost. A content is its size, a version name
its number.

`Service` — the process. `Load`, `Verified` or `NotVerified`, `Bound` or `BindFails` (the replica
is next, or nobody), `Resolved` or `ResolveRaises`, and `Start` are the import of `server.py` and
its two entry points; `target` is the directory asked;
`Settings` is `config.py`, an environment being a function from the variables that are set.
Serving HTTP, a tool request past `Door` holds the loop (`request`) and a probe of `/healthz`
or `/metrics` takes it for a step; `/readyz` gives it up twice (`Readyz`, `CheckCore`, `AskLdap`,
`CheckLdap`, `Conclude`). `up` is which peers answer; `seen[p]` is what was up or down during
`p`'s `/readyz`. `Exposition` is `metrics.py`, a page as the sequence of its lines. Each source of
`/proc` is read, is refused by the system, or holds what cannot be made sense of: the last raises
out of `process_metrics`, and `Render` goes on with what was there by then. `ClientIp` is
`netutil.py`. The verifier and role resolution are replaced by what their modules can return.

Operators named `X_Remark` are deviations: the definition `X` as a plausible mistake would
have written it. No specification uses them; `mutants` in `PROJECT.json` says which property
each one breaks when it replaces `X`. Modules named `…MC` instantiate for TLC, modules named
`…Proofs` hold the theorems.

## The runs

| Run | Instance | What it shows |
| --- | --- | --- |
| `token_store` | 2 tokens, 2 identities, TTL 2, time 0..5, clock put back by up to 3 | resolve accepts exactly the unrefused and unexpired; lifetime in true time; stats |
| `gate` | 2 tenants (symmetric), live and suspended, TTLs 2 and 1, time 0..3 | verdicts are fresh both ways and not mixed up, reasons are true; refinement of `FreshAnswer` |
| `cred_race` | 2 callers (symmetric), 1 credential and one with an empty half, TTL 1, time 0..2, clock put back by up to 1 | a yes is fresh and a no is current under every interleaving; refinement |
| `ldap_failover` | 1 user, 2 tenants, 1 role, with and without a replica, the user exempt or not, cooldown 1, time 0..2 | "unreachable" only if both were; the primary is spared and probed when due; roles of the directory that answered, one moment, one tenant; no login without the password |
| `door_tenants` | 1 connection, 2 users, one a service principal, 2 tenants, 1 token, windows of 2, time 0..3, 1 change | what a served request rests on, over several requests in sequence |
| `door_callers` | 2 connections, 2 users, 1 tenant, 1 token, time 0..1 | a session is its own caller's; every request is answered |
| `subtree` | 4 entities, 1 of them allowed, walks of at most 3 steps, searches of 2 hits; every tree to begin with | with one change at most during the walk, its answer was true at a moment of it; nothing outside is moved, nothing moved outside; the record says what happened |
| `file_tools` | 3 versions, sizes 0..5, caps 2 and 3, chunks of 1 or 2 | one version at most per call, one if it succeeds, and what is reported of it; reads are whole and bounded; what `check_permission` answers |
| `service` | both entry points, 4 environments, 2 `.env` files, 1 probe at a time, 4 addresses, 2 of them trusted proxies, 5 readings of `/proc` | the identity and the mode are the ones configured; what `/readyz` says was so; the audited address is the client's; `/metrics` keeps its format, says if the service's gauges failed, and shows what was read of the process; probes are answered |
| `move_back` | 3 entities, 2 of them allowed | a promise of the design an allow-list breaks; see Findings |
| `readyz`, `bootstrap` | as `service` | two descriptions the code does not keep; see Findings |

Bounds. Every lifetime in these models is compared with differences of times, so a small TTL
and a time horizon of one tick and more beyond the longest chain of windows (question, answer,
reuse, expiry) shows every order in which they can end. `TTL = 1` and `RefuseTTL = 1` make the
boundary instant `now = expiry` reachable by every operation. In `door_tenants` the windows are two
ticks, so that an answer is reused by a later request as well as on its boundary. Two tokens, tenants, callers or
connections are enough to confuse one with the other; a third adds only more of the same,
since no operation relates more than two. `MaxChanges` in `Door` counts revocations, group
edits and suspensions: one, at any point of several requests, and what was revoked or suspended
may be put back at any later point. Longer sequences are left to the theorems. What these
bounds leave open is closed by the proofs, but for what "Only model-checked" lists.

In `Subtree` a walk of three steps and four entities have a depth limit that is reached, a cycle
seen by a walk across two changes, a move whose two targets are walked in turn, and a hit that
repeats an earlier one's path. Others' changes are unbounded; a call counts them up to two,
since the promise is about one: two make a path that never existed, and TLC finds such a call
as soon as `changes <= 1` is weakened, in `GrantedWasInside` and in `PermittedAtOnce` alike.
`cred_race` has one tenant; that a success in one does not open another is part of the theorem
`VerifiedValid`, whose key includes the tenant.

In `Service` the environments have the agent's key in the environment, in the file, in both and
in neither, a file that names one variable twice, a variable set to nothing, proxies and an
address list. The probes share nothing but the loop, which tool requests contend for as well,
so one probe meets all they could; chains of two proxies have a trusted hop before the peer, and
`ClientResolved` is about chains of any length.

In `FileTools` three versions are one there before, one of the call and one of another door;
size 5 is above both caps by more than a chunk.

Deadlock is checked in every run.

Fairness is used by `door_callers`, for `EveryRequestAnswered`, and by `service`, for
`EveryProbeAnswered`. `SF` on taking the loop and on being served: asyncio runs
its ready callbacks in the order they became ready, so a request that is ready whenever the
loop is free gets its turn although others keep arriving. `WF` on the steps of the holder: a
call to ldap_manager, a directory or the core returns or fails. For ldap_manager the code sees
to that (3 s timeout); for LDAP and the core it does not, and the hazard at `ldap_auth.py:126`
says what follows. In `Service` the same, and `WF` on the checks of `/readyz`, which both end after
two seconds. No fairness is assumed of arrivals, of time, or of any change.

## Findings

- `DESIGN.md:36` says that a move can be moved back. With two directories on the allow-list one
  of them can be moved into the other, but the move back names its old parent, which is outside
  (`server.py:192-195`). Run `move_back`. An entity below an allowed directory can be moved back.
- `http_app.py:231` calls `/readyz` the dependencies "this server cannot serve a request
  without". It asks the primary directory only (`http_app.py:216-219`) and says 503 while the
  replica serves every request. Run `readyz`.
- `server.py:101` calls the bootstrap authentication best-effort: if it fails, the process starts
  anyway. A primary that accepts the bind and is gone at the search raises out of `resolve_roles`
  (`ldap_auth.py:134`; only a failed bind is caught, at `ldap_auth.py:112`), and nothing at
  `server.py:114` catches it. Run `bootstrap`: over HTTP, the primary going down between the two.

Seen while modelling, each plain from the lines themselves:

- `ldap_auth.py:92` says an identity is authenticated iff the uid exists; the code
  (`ldap_auth.py:142-147`) also wants a role in the tenant, or a service principal.
- `tenant_access.py:72` says that a group search that fails is no access. It is no roles
  (`tenant_access.py:82-85`), and a service principal has access without any
  (`ldap_auth.py:142-147`): it is served without the roles it holds, although
  `tenant_access.py:28` says that it gets exactly those. `RolesHeldThere` and `RolesOfTenant` say
  what the code does: after a failed search no roles, and that for service principals only.
- `config.py:102` says service principals carry no tenant roles; one that is in a group of the
  tenant does (`ldap_auth.py:142-146`).
- `metrics.render` keeps a broken collector from failing the scrape "because metrics that vanish
  exactly when something goes wrong are metrics you cannot alert on" (`metrics.py:200-202`); the
  process gauges do vanish without a word, when a source of `/proc` cannot be read
  (`metrics.py:170-174`) and when `process_metrics` raises (`metrics.py:206-209`).
- `MCP_READ_ONLY=on` is not read-only (`config.py:53`), though `on` switches the other booleans
  (`config.py:41`).

## The proofs

All from the assumptions named in the modules (lifetimes are integers; the gate's are
positive, as `ADMIT_TTL_S` and `REFUSE_TTL_S` are; the entities are finitely many; what is in
an environment or in a `.env` file are strings; the sentinel values are outside the data), for
any number of tokens, tenants, callers, credentials, connections, entities and versions and any
bound on time. Every safety property the passing runs check is a theorem.

`TokenStoreProofs`: every property of `TokenStore`. The invariant ties an entry to its birth
record: same identity, expiry = issue time + TTL, and the entry is there unless the token was
refused. The lifetime in true time follows because `now + setback - elapsed` never shrinks.

`TenantGateProofs`: every invariant of `TenantGate`. None is inductive alone, since a verdict
rests on a cache entry, that on an answer, that on a state of the registry that may be over.
`IInv` follows the state along that way: `LastSound` (the history is right), `CallSound` (an
answer on its way was true after the question was sent), `CacheSound` (an entry's `until` is
within its lifetime of the moment it rests on), `VerdictSound`.

`TenantGateProofs!Implements`: the refinement of `FreshAnswer`, step by step; the one step that
can be a yes needs `AdmitFresh`.

`ServiceCredProofs`: every property of `ServiceCred`, the refinement included, for any number
of callers. Three clock readings are involved: of the caller who stored, of the caller who
finds, and the expiry made from the first, and the readers may have read in either order.
`Drift` (`now + setback - elapsed`) never shrinks, so a reading less the true time it was taken
at is at most today's drift (`CallSound`, `EntrySound`); `PairSound` compares two calls in
progress, `EntryCallSound` an entry with a call in progress that may take it for fresh.

`LdapFailoverProofs`: every property of `LdapFailover`. `BreakerSound` ties the breaker's
deadline to the last failure of the primary; without it nothing says that a call sent past
the primary had cause to be (`CallSound`). `PrimaryIffDue` follows: the deadline is a
cooldown after that failure, or both have passed. `RolesHeldThere` rests on `SeenSound`: what the
directories hold now is in `seen`, and so is what was found at the search for the user.

`DoorProofs`: every safety property of `Door`. What an identity rests on is said once
(`Backed`: a credential valid in that tenant when the login asked, and roles of groups held
there since, or none after a failed search), of every request past its roles and of every token ever issued: an issued token
is how a login reaches requests long after it. All of it is about when something last held, so
it never ceases to be so (`Grows`, `BackedKept`), whatever is revoked or edited. The proof rests
on `FreshAnswer` where the verifier and the gate are replaced by it, and
`ServiceCredProofs!Implements` and `TenantGateProofs!Implements` show that they may be.

`DoorProofs!RunsTheStore`: the other composition. `Door` uses the actions of `TokenStore` inside
its own; the theorem is that nothing else it does touches the store, so `Spec` implements
`Store!Spec`, with both clocks one and no setback: a token is issued to a resolved identity
(`IssuesToIdentity`), presented, or left alone (`StepsAsStore`). `AcceptsAsIssued` is then
`AcceptsExactly` of the door, by an invariant on the tokens held and those refused.

`FileToolsProofs`: every property of `FileTools`, for histories of any length. `IInv` says for
each phase what the call still knows: that without a cull the history is no shorter than
counted, that the newest version is its own or a later one, how many it has made (`WriteSound`), how much of what
was opened has been read (`ReadSound`), what was permitted (`PermissionSound`).

`SubtreeProofs`: every property of `Subtree`, for any tree, allow-list, depth and searches of any
length. The first part is about `Up`, which is recursive: each induction on the length of a
path is made by looking at the least length at which the claim fails (`LeastExists`, from the
well-foundedness of `<`). So: `Up` is well-defined (`UpDef`), no path in a tree returns to where
it was (`NoReturn`) or is longer than there are entities (`Short`), and placing an entity where
it is not above leaves a tree (`Placing`). The invariant is `WalkSound`: with one change since the
check began, the walk so far is the path of its target in one tree, the present one, or the
one before if the entity that moved is behind the walk already; and it has met nothing
allowed. A walk that met the change half way has thus seen a path that was there at one
moment. This fails for two changes, as TLC shows.

`ServiceProofs!ClientResolved`: for any networks, any header the client sends and any number
of trusted proxies, the hops are what was sent, the client, then proxies only
(`HopsOfChain`), so the right-most one outside the networks is the client.

`ServiceProofs`: every safety property of `Service`. `SourceIsClient` is from `ClientResolved`.
`ReadyWasTrue` is not inductive: an answer rests on two readings of `up` at different times. `IInv`
says that the history of a `/readyz` in progress holds every peer as it is now (`SeenSound`),
and what its checks found (`ChecksSound`).

`PageComplete` and `BootsAsConfigured` are about folds, over the gauges of a page and the lines of
a file. `FoldLeft` unfolds to a function that is chosen to satisfy an equation, of which nothing
follows until there is one that does: `FoldExists`, by the least length for which there were
none. A fold is then a trace of accumulators, each made of the one before (`GaugesSteps`,
`ThreadSamplesSteps`, `DotenvSteps`), and what each step keeps holds of the last. Of a page that is
`Sound`: in the format, and its families are the ones declared. `ProcessSound` says which of them
`process_metrics` has declared where it stops. So `RenderComplete`, for whatever becomes of each
source, and `PagesComplete`, for every page sent. Of an environment it is that a
variable once set stays: `LoadedIsGiven`, against the reference definition `GivenIn`. `BootsAsTold`
follows with `Configured`, which says what the environment is in each stage of the start, and
that an identity is of the key and the tenant in it.

Only model-checked: the two liveness properties, `EveryRequestAnswered` and `EveryProbeAnswered`,
which rest on fairness.

## Not modelled

- The parsing in `extract_tenant` and `decode_basic`: `Door` lets a request name any tenant
  and carry any credential. Origin and session label are not part of what the properties tell apart.
- The parsing of addresses, networks and environment files, case and blanks in names, the
  numbers of `/metrics` and the escaping of its labels.
- The settings that are a host, a port or a number, and the registration of tools at import.
- How the MCP SDK runs a tool in the context of a request is the SDK's; `Serve` is what
  `get_session()` returns to code awaited by the middleware, as `/whoami` is.
- A restart: all state is in memory, so it is `Init`.
- Of the tools, those that pass the answer of one RPC on (listings, stat, metadata, rename,
  `file_link`) have no state of their own: they are "use" in `Subtree`.
- The core's own checks, and that its reads and writes are atomic, are assumed: `Effects`,
  `Appended` and the `Others…` actions are external.
- `is_degraded`, `scope_claims_to_tenant`, `cap_read_bytes`, `client_ip_from_request` and
  `metrics.install`: nothing calls them. `cap_results` cuts a list.
- `examples/agent_demo.py` and the script that prints the tool reference: no part of the server.

## Plan

1. `extract_tenant` and `cap_results`: pure functions against reference definitions.
2. Two changes during a walk: what is true of a grant then is less than `GrantedWasInside`, that
   each step of the path was there when it was taken.
3. `Door` with the actual answers of `LdapFailover` in place of `RolesHeldThere`, as was done for the
   token store.
