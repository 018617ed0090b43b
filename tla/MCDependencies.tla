--------------------------- MODULE MCDependencies ---------------------------
(* An instance of Dependencies: one object of each kind, one Agent and one *)
(* Secret.                                                                 *)
EXTENDS Dependencies

Providers == {"provider"}
Integrations == {"integration"}
Agents == {"agent"}
Secrets == {"key"}
=============================================================================
