------------------------------ MODULE Settings ------------------------------
(***************************************************************************)
(* config.py: os.environ, what a .env file adds to it, and the settings    *)
(* that Config makes of the two.  os.environ is a function whose domain is *)
(* the variables that are set, to "" perhaps; the file is a sequence of the *)
(* assignments in it.  Lists are of one element, and the spelling of names *)
(* and switches (case, blanks) is left out.                                *)
(*                                                                         *)
(* Operators named X_Remark are deviations of the X that follows them.     *)
(***************************************************************************)
EXTENDS Integers, Sequences, SequencesExt, TLC

LoadDotenv_Overrides(environ, dotenv) ==
  FoldLeft(LAMBDA env, line : (line.key :> line.val) @@ env, environ, dotenv)

\* os.environ.setdefault: a line sets its variable if that is not set.
SetDefault(environ, line) ==
  [v \in DOMAIN environ \cup {line.key} |->
     IF v \in DOMAIN environ THEN environ[v] ELSE line.val]

LoadDotenv(environ, dotenv) == FoldLeft(SetDefault, environ, dotenv)

\* _env: a variable that is set to nothing is set.
Env(environ, key, default) == IF key \in DOMAIN environ THEN environ[key] ELSE default

\* _bool
Switch(environ, key, default) ==
  IF key \in DOMAIN environ THEN environ[key] \in {"1", "true", "yes", "on"} ELSE default

Listed_KeepsEmpty(val) == {val}

\* A value as a list or set of one, or none.
Listed(val) == {val} \ {""}

\* The replica: the endpoint given, or the default one if it is switched on.
Replica(environ) ==
  LET uri == Env(environ, "FILEENGINE_LDAP_ENDPOINT_REPLICA", "")
  IN  IF uri = "" /\ Switch(environ, "FILEENGINE_LDAP_REPLICA_ENABLED", FALSE)
      THEN "ldap://localhost:1389" ELSE uri

AgentUser(environ) ==
  Env(environ, "FILEENGINE_MCP_USER", Env(environ, "FILEENGINE_LDAP_USER", ""))

\* A secret of its own, or the one that services share.
Secret(environ, own, shared) == Env(environ, own, Env(environ, shared, ""))

Config(environ) ==
  [tenant      |-> Env(environ, "FILEENGINE_MCP_TENANT", "default"),
   read_only   |-> Env(environ, "MCP_READ_ONLY", "0") \in {"1", "true", "yes"},
   allowlist   |-> Listed(Env(environ, "MCP_SUBTREE_ALLOWLIST", "")),
   replica_enabled |-> Replica(environ) # "",
   agent_user  |-> AgentUser(environ),
   service_principals |-> Listed(Env(environ, "FILEENGINE_SERVICE_PRINCIPALS", "")),
   manager     |-> /\ Env(environ, "LDAP_MANAGER_URL", "") # ""
                   /\ Secret(environ, "SERVICE_CRED_INTERNAL_SECRET", "MFA_INTERNAL_SECRET") # "",
   csai        |-> /\ Env(environ, "CSAI_URL", "") # ""
                   /\ Secret(environ, "CSAI_INTERNAL_SECRET", "SERVICE_CRED_INTERNAL_SECRET") # "",
   mcp_key     |-> Env(environ, "FILEENGINE_MCP_KEY", ""),
   mcp_secret  |-> Env(environ, "FILEENGINE_MCP_SECRET", "")]

\* tenant_access.service_principals: those listed, and the service's own agent.
ServicePrincipals(config) == config.service_principals \cup Listed(config.agent_user)
=============================================================================
