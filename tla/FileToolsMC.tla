----------------------------- MODULE FileToolsMC -----------------------------
(* FileTools on small instances; no constant needs a definition.           *)
EXTENDS FileTools
=============================================================================
