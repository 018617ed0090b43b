------------------------------ MODULE McpProxy ------------------------------
(***************************************************************************)
(* The MCP gateway in proxy mode (images/mcp-gateway: runProxy of main.go, *)
(* internal/proxy and internal/permissions): which JSON-RPC requests go on *)
(* to the upstream MCP server.  The value of an argument, as fmt.Sprint    *)
(* prints it, and a pattern are sequences of characters.                   *)
(***************************************************************************)
EXTENDS Naturals, Sequences

CONSTANTS
    Server,     \* names of MCP servers
    Tool,       \* names of tools
    Arg,        \* names of arguments
    Character,  \* characters of values and patterns
    MaxLength,  \* bound on the length of values and patterns
    Unset,      \* what is missing
    Malformed   \* what cannot be parsed

ASSUME ProxyAssumption ==
    /\ MaxLength \in Nat /\ "*" \in Character
    /\ Unset # Malformed /\ Unset \notin Server

Value == UNION {[1..n -> Character] : n \in 0..MaxLength}

(* A rule is what its string splits into: the tool, before the first ":",  *)
(* and a constraint on an argument, Malformed when it has no "=".          *)
Constraint == [arg : Arg \cup {"*"}, pattern : Value]
Rule == [tool : Tool, constraint : Constraint \cup {Unset, Malformed}]

(* A body is one JSON-RPC request or something else: unreadable, or not an *)
(* object (which includes one cut off at 1 MiB).                           *)
Call == [name : Tool, args : UNION {[A -> Value] : A \in SUBSET Arg}]

(* A gateway and an HTTP request to it.                                    *)
IsRequest(i) ==
    /\ i.gateway.config \in {"unset", "unreadable", "readable"}
    /\ i.gateway.server \in Server \cup {Unset}
    /\ DOMAIN i.gateway.policies \subseteq Server
    /\ \A s \in DOMAIN i.gateway.policies :
          LET p == i.gateway.policies[s]
          IN  /\ p.mode \in {"deny", "allow", "other"} /\ p # Unset
              /\ \A n \in DOMAIN p.rules : p.rules[n] \in Rule
    /\ i.request.body.shape \in {"unreadable", "other", "request"}
    /\ i.request.body.shape = "request" => i.request.body.params \in Call \cup {Malformed}

-----------------------------------------------------------------------------

(* internal/permissions *)
MatchPattern(value, pattern) ==
    IF pattern # << >> /\ pattern[Len(pattern)] = "*"
      THEN LET n == Len(pattern) - 1
           IN  Len(value) >= n /\ SubSeq(value, 1, n) = SubSeq(pattern, 1, n)
      ELSE value = pattern

MatchRule(call, rule) ==
    LET c == rule.constraint
    IN  /\ rule.tool = call.name
        /\ \/ c = Unset
           \/ /\ c \notin {Unset, Malformed}
              /\ \E a \in DOMAIN call.args :
                    c.arg \in {a, "*"} /\ MatchPattern(call.args[a], c.pattern)

Check(policy, call) ==
    LET matched == \E i \in DOMAIN policy.rules : MatchRule(call, policy.rules[i])
    IN  CASE policy.mode = "deny" -> ~matched
          [] policy.mode = "allow" -> matched
          [] OTHER -> TRUE

(* runProxy: the policy that the gateway starts with.  A file that cannot  *)
(* be read or parsed leaves it without one.                                *)
RunProxy(gateway) ==
    IF gateway.config \in {"unset", "unreadable"} \/ gateway.server = Unset
       \/ gateway.server \notin DOMAIN gateway.policies
      THEN Unset
      ELSE gateway.policies[gateway.server]

(* Mutant: parameters that cannot be parsed are passed on. *)
CheckToolCallOpen(policy, params) ==
    policy = Unset \/ params = Malformed \/ Check(policy, params)

(* Parameters that cannot be parsed are refused, but only under a policy.  *)
CheckToolCall(policy, params) ==
    policy = Unset \/ (params # Malformed /\ Check(policy, params))

(* What becomes of a POST: refused by the gateway, or sent on. *)
HandlePost(policy, body) ==
    CASE body.shape = "unreadable" -> "bad request"
      [] body.shape = "other" -> "forwarded"
      [] body.shape = "request" ->
           IF body.method = "tools/call" /\ ~CheckToolCall(policy, body.params)
             THEN "blocked" ELSE "forwarded"

(* Only a POST to /mcp is looked at. *)
Handler(policy, request) ==
    CASE request.route = "POST /mcp" -> HandlePost(policy, request.body)
      [] request.route = "GET /health" -> "ok"
      [] OTHER -> "forwarded"

-----------------------------------------------------------------------------

(* What the rules say, argument by argument: a pattern with a trailing     *)
(* star stands for all its continuations.                                  *)
Denotes(pattern, value) ==
    \/ value = pattern /\ (pattern = << >> \/ pattern[Len(pattern)] # "*")
    \/ \E n \in 0..Len(value) : pattern = Append(SubSeq(value, 1, n), "*")

Applies(rule, call) ==
    /\ rule.tool = call.name
    /\ rule.constraint # Malformed
    /\ rule.constraint # Unset =>
           \E a \in DOMAIN call.args :
               /\ rule.constraint.arg = "*" \/ rule.constraint.arg = a
               /\ Denotes(rule.constraint.pattern, call.args[a])

(* A deny list forbids what one of its rules applies to, an allow list all *)
(* that none of its rules applies to.                                      *)
Forbidden(policy, call) ==
    LET hit == {i \in DOMAIN policy.rules : Applies(policy.rules[i], call)}
    IN  (policy.mode = "deny" /\ hit # {}) \/ (policy.mode = "allow" /\ hit = {})
=============================================================================
