------------------------- MODULE MCRuntimePreflight -------------------------
(* The TLC instance of PreflightBootstrap and RuntimePreflight: one probe of each kind. *)
EXTENDS PreflightBootstrap

MCPlan == <<"init", "logs", "bootstrap", "mongo">>
=============================================================================
