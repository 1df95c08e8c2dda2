----------------------------- MODULE ServiceMC -----------------------------
(***************************************************************************)
(* Small environments for Service: a key in the environment, in the file or *)
(* in both with different values, a file that names a variable twice, a    *)
(* variable set to nothing, one proxy network, a scraper's address list.   *)
(***************************************************************************)
EXTENDS Service

MCIssued == "ka" :> "agent" @@ "kb" :> "stray"

Line(key, val) == [key |-> key, val |-> val]

Manager == "LDAP_MANAGER_URL" :> "m" @@ "MFA_INTERNAL_SECRET" :> "s"

Agent == Manager @@ "FILEENGINE_MCP_KEY" :> "ka" @@ "FILEENGINE_MCP_SECRET" :> "s"

Behind == "FILEENGINE_TRUSTED_PROXIES" :> "edge" @@ "FILEENGINE_MONITORING_ALLOW_IPS" :> "scraper"

MCEnvirons ==
  {"" :> "",
   Agent @@ Behind,
   Agent @@ "MCP_READ_ONLY" :> "1" @@ "FILEENGINE_LDAP_REPLICA_ENABLED" :> "yes"
         @@ "FILEENGINE_MCP_USER" :> "",
   Manager @@ "MCP_SUBTREE_ALLOWLIST" :> "f"}

MCDotenvs ==
  {<<>>,
   <<Line("FILEENGINE_MCP_KEY", "kb"), Line("FILEENGINE_MCP_SECRET", "s"),
     Line("FILEENGINE_MCP_TENANT", "acme"), Line("FILEENGINE_MCP_TENANT", "beta"),
     Line("FILEENGINE_LDAP_USER", "agent"), Line("MCP_READ_ONLY", "0")>>}

MCCovers == "" :> {} @@ "edge" :> {"e1", "e2"} @@ "scraper" :> {"c"}

Read(status, fd, task) == [status |-> status, fd |-> fd, task |-> task]

MCReadings ==
  {Read("read", "read", "read"), Read("unreadable", "unreadable", "unreadable"),
   Read("read", "unreadable", "read"), Read("raises", "read", "read"),
   Read("read", "read", "raises")}
=============================================================================
