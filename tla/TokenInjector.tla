--------------------------- MODULE TokenInjector ----------------------------
(***************************************************************************)
(* The OAuth2 reverse proxy (images/token-injector/main.go).  Requests are *)
(* handled concurrently; each takes the bearer token from a cache behind a *)
(* mutex that is held while a new token is fetched.  Time is counted in    *)
(* seconds.  The token endpoint and the upstream API are external.         *)
(***************************************************************************)
EXTENDS Integers

CONSTANTS
    Request,               \* the incoming requests
    Lifetime,              \* the lifetimes that the endpoint gives to tokens
    LeewayEnv, TimeoutEnv, \* TOKEN_INJECTOR_REFRESH_LEEWAY_SECONDS, ..._TIMEOUT_SECONDS
    Delay,                 \* bound on a token's way from the endpoint, or to the upstream
    MaxNow,                \* bound on time
    None                   \* no request, no token

(* 0: not set, or not a number. *)
EnvIntDefault(v, def) == IF v <= 0 THEN def ELSE v

Leeway == EnvIntDefault(LeewayEnv, 30)
Timeout == EnvIntDefault(TimeoutEnv, 120)

(* The lifetime assumed for a token whose expires_in is missing. *)
Fallback == 300

ASSUME TimeAssumption ==
    /\ Lifetime \subseteq Nat \ {0}
    /\ LeewayEnv \in Int /\ TimeoutEnv \in Int
    /\ Delay \in Nat /\ MaxNow \in Nat
    /\ 2 * Delay <= Leeway
    /\ None \notin Request
    /\ None \notin [issued : Nat, exp : Nat]
    /\ None \notin [tok : [issued : Nat, exp : Nat], expires_in : Nat]

VARIABLES
    now,        \* the time
    req,        \* how far each request is
    mu,         \* the request that holds the mutex while it fetches a token, or None
    answer,     \* what the endpoint has answered to it
    token,      \* tokenCache.token
    expiresAt   \* tokenCache.expiresAt

vars == <<now, req, mu, answer, token, expiresAt>>

(* A token as the endpoint knows it. *)
Token == [issued : Nat, exp : Nat]
Answer == [tok : Token, expires_in : Nat]

(* lock: waits for the mutex.  fetch: waits for the endpoint.  send: on    *)
(* its way to the upstream API, with tok as its bearer token.  at: when    *)
(* the fetch or the way to the upstream began.                             *)
RequestState == [pc : {"new", "lock", "fetch", "send", "arrived", "failed"},
                 tok : Token \cup {None}, at : Nat]

TypeOK ==
    /\ now \in Nat
    /\ req \in [Request -> RequestState]
    /\ mu \in Request \cup {None}
    /\ answer \in Answer \cup {None}
    /\ token \in Token \cup {None}
    /\ expiresAt \in Nat

Init ==
    /\ now = 0
    /\ req = [r \in Request |-> [pc |-> "new", tok |-> None, at |-> 0]]
    /\ mu = None
    /\ answer = None
    /\ token = None
    /\ expiresAt = 0

(* Mutant: a token is used until it expires. *)
UsableToTheEnd == token # None /\ expiresAt > now

(* Get: the cached token has more than the leeway left. *)
Usable == token # None /\ expiresAt - now > Leeway

GoTo(r, pc, tok) == req' = [req EXCEPT ![r] = [pc |-> pc, tok |-> tok, at |-> now]]

Receive(r) ==
    /\ req[r].pc = "new"
    /\ req' = [req EXCEPT ![r].pc = "lock"]
    /\ UNCHANGED <<now, mu, answer, token, expiresAt>>

GetCached(r) ==
    /\ req[r].pc = "lock"
    /\ mu = None
    /\ Usable
    /\ GoTo(r, "send", token)
    /\ UNCHANGED <<now, mu, answer, token, expiresAt>>

(* Mutant: the request decided to fetch before it got the mutex. *)
BeginFetchUnchecked(r) ==
    /\ req[r].pc = "lock"
    /\ mu = None
    /\ mu' = r
    /\ GoTo(r, "fetch", None)
    /\ UNCHANGED <<now, answer, token, expiresAt>>

BeginFetch(r) ==
    /\ req[r].pc = "lock"
    /\ mu = None
    /\ ~ Usable
    /\ mu' = r
    /\ GoTo(r, "fetch", None)
    /\ UNCHANGED <<now, answer, token, expiresAt>>

(* The endpoint issues a token and says, or does not say, how long it      *)
(* lives.  One that does not say so gives out tokens that live as long as  *)
(* the fallback.                                                           *)
Issue ==
    /\ mu # None
    /\ answer = None
    /\ \E l \in Lifetime : \E said \in {l} \cup (IF l >= Fallback THEN {0} ELSE {}) :
          answer' = [tok |-> [issued |-> now, exp |-> now + l], expires_in |-> said]
    /\ UNCHANGED <<now, req, mu, token, expiresAt>>

(* Mutant: a second less for the way, and no fallback. *)
SecondLess(n) == n - 1

ExpiresIn(n) == IF n <= 0 THEN Fallback ELSE n

FetchDone(r) ==
    /\ mu = r
    /\ answer # None
    /\ token' = answer.tok
    /\ expiresAt' = now + ExpiresIn(answer.expires_in)
    /\ GoTo(r, "send", answer.tok)
    /\ mu' = None
    /\ answer' = None
    /\ UNCHANGED now

(* Mutant: the mutex is not unlocked on the error path. *)
FetchFailsLocked(r) ==
    /\ mu = r
    /\ req[r].pc = "fetch"
    /\ GoTo(r, "send", None)
    /\ answer' = None
    /\ UNCHANGED <<now, mu, token, expiresAt>>

(* The request to the endpoint fails or times out, its context is          *)
(* cancelled, or the response is of no use.  The cache is left as it is    *)
(* and the Director lets the request go on without a token.                *)
FetchFails(r) ==
    /\ mu = r
    /\ GoTo(r, "send", None)
    /\ mu' = None
    /\ answer' = None
    /\ UNCHANGED <<now, token, expiresAt>>

(* Nothing of the request is left. *)
Answered(r, pc) == req' = [req EXCEPT ![r] = [pc |-> pc, tok |-> None, at |-> 0]]

Arrive(r) ==
    /\ req[r].pc = "send"
    /\ Answered(r, "arrived")
    /\ UNCHANGED <<now, mu, answer, token, expiresAt>>

(* A transport error, the only case for ErrorHandler. *)
UpstreamFails(r) ==
    /\ req[r].pc = "send"
    /\ Answered(r, "failed")
    /\ UNCHANGED <<now, mu, answer, token, expiresAt>>

(* Time passes, except beyond http.Client.Timeout and the bound on a       *)
(* token's way.                                                            *)
Tick ==
    /\ now < MaxNow
    /\ \A r \in Request :
          /\ req[r].pc = "fetch" => now < req[r].at + Timeout
          /\ req[r].pc = "send" => now < req[r].at + Delay
    /\ answer # None => now < answer.tok.issued + Delay
    /\ now' = now + 1
    /\ UNCHANGED <<req, mu, answer, token, expiresAt>>

Lock(r) == GetCached(r) \/ BeginFetch(r)
Fetched(r) == FetchDone(r) \/ FetchFails(r)
Forwarded(r) == Arrive(r) \/ UpstreamFails(r)

Next ==
    \/ \E r \in Request : Receive(r) \/ Lock(r) \/ Fetched(r) \/ Forwarded(r)
    \/ Issue
    \/ Tick

Spec == Init /\ [][Next]_vars

(* sync.Mutex does not starve a waiter, and both round trips end. *)
Fairness ==
    \A r \in Request : SF_vars(Lock(r)) /\ WF_vars(Fetched(r)) /\ WF_vars(Forwarded(r))

FairSpec == Spec /\ Fairness

-----------------------------------------------------------------------------
(* Properties.                                                             *)

(* A bearer token has not expired when it is sent, nor at any time until   *)
(* it arrives at the upstream API, even though expiresAt is counted from   *)
(* the arrival of the endpoint's answer and not from the issue of the      *)
(* token: the refresh leeway makes up for both ways.  (A token that lives  *)
(* no longer than its way cannot be saved.)                                *)
FreshInFlight ==
    \A r \in Request :
        LET tok == req[r].tok
        IN  req[r].pc = "send" /\ tok # None /\ tok.exp - tok.issued > 2 * Delay
              => now < tok.exp

(* Requests that wait for the mutex while a token is fetched use that      *)
(* token: the fetch in flight began when the cached token, if any, had no  *)
(* more than the leeway left.                                              *)
NoRedundantFetch ==
    \A r \in Request :
        req[r].pc = "fetch" /\ token # None => expiresAt - req[r].at <= Leeway

(* Every request is answered, whatever fetches fail on the way: no path    *)
(* through Get keeps the mutex.                                            *)
AllAnswered ==
    \A r \in Request : req[r].pc = "lock" ~> req[r].pc \in {"arrived", "failed"}
=============================================================================
