----------------------------- MODULE CsaiClient -----------------------------
(***************************************************************************)
(* csai_client.CsaiTextClient._post: what becomes of a request to          *)
(* convert_search_ai, and which of it the tools make a refusal of.         *)
(***************************************************************************)

\* How a request ends.  404 is two answers, told apart by the detail; "garbled" is
\* a body that is no JSON, "unreachable" includes a timeout while connecting.
Status == {"200", "400", "403", "404_not_enabled", "404", "500", "unreachable", "garbled"}

\* The exception _post raises, with no request at all when CSAI is not configured.
Raised(enabled, status) ==
  CASE ~enabled \/ status = "404_not_enabled" -> "ExtractionNotConfigured"
    [] enabled /\ status = "403"              -> "TextForbidden"
    [] enabled /\ status = "400"              -> "BadRequest"
    [] enabled /\ status = "404"              -> "TextUnavailable"
    [] enabled /\ status = "garbled"          -> "JSONDecodeError"
    [] enabled /\ status \in {"500", "unreachable"} -> "RuntimeError"

\* The exceptions a tool turns into a GuardError; it lets the others through, or
\* raises NotFoundError in place of TextUnavailable.
Guarded == [search    |-> {"TextForbidden", "BadRequest"},
            read_text |-> {"TextForbidden"}]
=============================================================================
