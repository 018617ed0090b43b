----------------------------- MODULE MCMcpSpawn -----------------------------
(* An instance of McpSpawn: two clients, one of which sends a request and  *)
(* the other a request with the same id or a notification.  The server may *)
(* use another id, too.                                                    *)
EXTENDS McpSpawn

Requests == {"a", "b"}
Ids == {1, 2}
RequestIds == [r \in Requests |-> IF r = "a" THEN {1} ELSE {0, 1}]
Connections == {"sse"}
=============================================================================
