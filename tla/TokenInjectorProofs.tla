------------------------ MODULE TokenInjectorProofs -------------------------
(***************************************************************************)
(* TokenInjector, proved for any set of requests, any lifetimes, any       *)
(* timeout and any leeway that makes up for the two ways of a token.       *)
(*                                                                         *)
(* That a token is fresh on its way rests on what the cache says of it:    *)
(* expiresAt is late by at most the way from the endpoint, since the       *)
(* lifetime that Get counts with never exceeds the token's.  That fetches  *)
(* are not redundant rests on the mutex: while one is in flight nobody     *)
(* else writes the cache.                                                  *)
(***************************************************************************)
EXTENDS TokenInjector, TLAPS

(* The request that holds the mutex is the one that fetches. *)
MutexHeld ==
    /\ \A r \in Request : req[r].pc = "fetch" <=> mu = r
    /\ answer # None => mu # None

(* The endpoint's answer is younger than Delay, and does not promise more  *)
(* than the token's lifetime.                                              *)
AnswerHonest ==
    answer # None =>
        /\ answer.tok.issued <= now /\ now <= answer.tok.issued + Delay
        /\ answer.tok.issued < answer.tok.exp
        /\ ExpiresIn(answer.expires_in) <= answer.tok.exp - answer.tok.issued

(* The cache is late by at most the way from the endpoint. *)
CacheHonest == token # None => expiresAt <= token.exp + Delay

(* A request sets out in time. *)
SentInTime ==
    \A r \in Request :
        req[r].pc = "send" =>
            /\ now <= req[r].at + Delay
            /\ req[r].tok # None /\ req[r].tok.exp - req[r].tok.issued > 2 * Delay
                 => req[r].at + Delay < req[r].tok.exp

TokenInv == TypeOK /\ MutexHeld /\ AnswerHonest /\ CacheHonest /\ SentInTime /\ NoRedundantFetch

LEMMA ConstantFacts ==
    /\ Leeway \in Nat /\ Timeout \in Nat /\ Fallback \in Nat
    /\ \A n \in Nat : ExpiresIn(n) \in Nat
  BY TimeAssumption DEF Leeway, Timeout, EnvIntDefault, Fallback, ExpiresIn, TimeAssumption

LEMMA TokenInit == Init => TokenInv
  BY TimeAssumption
  DEF Init, TokenInv, TypeOK, RequestState, MutexHeld, AnswerHonest, CacheHonest, SentInTime,
      NoRedundantFetch, TimeAssumption

(* What a request that goes to another place leaves alone. *)
LEMMA GoToFacts ==
    ASSUME TypeOK, NEW r \in Request, NEW pc \in {"fetch", "send"},
           NEW tok \in Token \cup {None}, GoTo(r, pc, tok)
    PROVE  /\ req' \in [Request -> RequestState]
           /\ req'[r] = [pc |-> pc, tok |-> tok, at |-> now]
           /\ \A s \in Request \ {r} : req'[s] = req[s]
  BY DEF GoTo, TypeOK, RequestState

LEMMA ReceiveInv ==
    ASSUME TokenInv, NEW r \in Request, Receive(r)
    PROVE  TokenInv'
  <1>1. /\ req' \in [Request -> RequestState]
        /\ req'[r].pc = "lock"
        /\ \A s \in Request \ {r} : req'[s] = req[s]
    BY DEF TokenInv, TypeOK, RequestState, Receive
  <1>2. TypeOK'
    BY <1>1 DEF TokenInv, TypeOK, Receive
  <1>3. MutexHeld'
    BY <1>1 DEF TokenInv, MutexHeld, Receive
  <1>4. AnswerHonest' /\ CacheHonest'
    BY DEF TokenInv, AnswerHonest, CacheHonest, Receive
  <1>5. SentInTime'
    BY <1>1 DEF TokenInv, SentInTime, Receive
  <1>6. NoRedundantFetch'
    BY <1>1 DEF TokenInv, NoRedundantFetch, Receive
  <1> QED  BY <1>2, <1>3, <1>4, <1>5, <1>6 DEF TokenInv

LEMMA GetCachedInv ==
    ASSUME TokenInv, NEW r \in Request, GetCached(r)
    PROVE  TokenInv'
  <1>1. /\ token \in Token /\ now \in Nat /\ expiresAt \in Nat /\ Delay \in Nat
        /\ expiresAt - now > Leeway
        /\ 2 * Delay <= Leeway
    BY TimeAssumption DEF TokenInv, TypeOK, GetCached, Usable, TimeAssumption
  <1>2. /\ req' \in [Request -> RequestState]
        /\ req'[r] = [pc |-> "send", tok |-> token, at |-> now]
        /\ \A s \in Request \ {r} : req'[s] = req[s]
    BY <1>1, GoToFacts DEF TokenInv, GetCached
  <1>3. TypeOK'
    BY <1>2 DEF TokenInv, TypeOK, GetCached
  <1>4. MutexHeld'
    BY <1>2 DEF TokenInv, MutexHeld, GetCached
  <1>5. AnswerHonest' /\ CacheHonest'
    BY DEF TokenInv, AnswerHonest, CacheHonest, GetCached
  <1>6. now + Delay < token.exp
    <2>1. token # None
      BY DEF GetCached, Usable
    <2>2. expiresAt <= token.exp + Delay
      BY <2>1 DEF TokenInv, CacheHonest
    <2>3. token.exp \in Nat
      BY <1>1 DEF Token
    <2> QED  BY <1>1, <2>2, <2>3, ConstantFacts
  <1>7. SentInTime'
    BY <1>1, <1>2, <1>6 DEF TokenInv, SentInTime, GetCached
  <1>8. NoRedundantFetch'
    BY <1>2 DEF TokenInv, NoRedundantFetch, GetCached
  <1> QED  BY <1>3, <1>4, <1>5, <1>7, <1>8 DEF TokenInv

LEMMA BeginFetchInv ==
    ASSUME TokenInv, NEW r \in Request, BeginFetch(r)
    PROVE  TokenInv'
  <1>1. /\ req' \in [Request -> RequestState]
        /\ req'[r] = [pc |-> "fetch", tok |-> None, at |-> now]
        /\ \A s \in Request \ {r} : req'[s] = req[s]
    BY GoToFacts DEF TokenInv, BeginFetch
  <1>2. TypeOK'
    BY <1>1 DEF TokenInv, TypeOK, BeginFetch
  <1>3. MutexHeld'
    BY <1>1, TimeAssumption DEF TokenInv, MutexHeld, BeginFetch, TimeAssumption
  <1>4. AnswerHonest' /\ CacheHonest'
    BY DEF TokenInv, AnswerHonest, CacheHonest, BeginFetch
  <1>5. SentInTime'
    BY <1>1 DEF TokenInv, SentInTime, BeginFetch
  <1>6. NoRedundantFetch'
    BY <1>1, ConstantFacts DEF TokenInv, TypeOK, NoRedundantFetch, BeginFetch, Usable
  <1> QED  BY <1>2, <1>3, <1>4, <1>5, <1>6 DEF TokenInv

LEMMA IssueInv ==
    ASSUME TokenInv, Issue
    PROVE  TokenInv'
  <1>1. PICK l \in Lifetime, said \in Nat :
            /\ said = l \/ (said = 0 /\ l >= Fallback)
            /\ answer' = [tok |-> [issued |-> now, exp |-> now + l], expires_in |-> said]
    BY TimeAssumption DEF Issue, TimeAssumption
  <1>2. now \in Nat /\ l \in Nat \ {0} /\ Delay \in Nat
    BY TimeAssumption DEF TokenInv, TypeOK, TimeAssumption
  <1>3. answer' \in Answer
    BY <1>1, <1>2 DEF Answer, Token
  <1>4. ExpiresIn(said) <= l
    BY <1>1, <1>2 DEF ExpiresIn, Fallback
  <1>5. TypeOK'
    BY <1>3 DEF TokenInv, TypeOK, Issue
  <1>6. MutexHeld'
    BY DEF TokenInv, MutexHeld, Issue
  <1>7. AnswerHonest'
    <2>1. now' = now
      BY DEF Issue
    <2>2. /\ answer'.tok.issued = now /\ answer'.tok.exp = now + l
          /\ answer'.expires_in = said
      BY <1>1
    <2> QED  BY <1>2, <1>4, <2>1, <2>2, ConstantFacts DEF AnswerHonest, ExpiresIn
  <1>8. CacheHonest' /\ SentInTime' /\ NoRedundantFetch'
    BY DEF TokenInv, CacheHonest, SentInTime, NoRedundantFetch, Issue
  <1> QED  BY <1>5, <1>6, <1>7, <1>8 DEF TokenInv

LEMMA FetchDoneInv ==
    ASSUME TokenInv, NEW r \in Request, FetchDone(r)
    PROVE  TokenInv'
  <1>1. /\ answer \in Answer /\ answer.tok \in Token /\ now \in Nat /\ Delay \in Nat
        /\ answer.tok.issued \in Nat /\ answer.tok.exp \in Nat
        /\ ExpiresIn(answer.expires_in) \in Nat
    BY TimeAssumption, ConstantFacts
    DEF TokenInv, TypeOK, FetchDone, Answer, Token, TimeAssumption
  <1>2. /\ req' \in [Request -> RequestState]
        /\ req'[r] = [pc |-> "send", tok |-> answer.tok, at |-> now]
        /\ \A s \in Request \ {r} : req'[s] = req[s]
    BY <1>1, GoToFacts DEF TokenInv, FetchDone
  <1>3. /\ answer.tok.issued <= now /\ now <= answer.tok.issued + Delay
        /\ ExpiresIn(answer.expires_in) <= answer.tok.exp - answer.tok.issued
    BY DEF TokenInv, AnswerHonest, FetchDone
  <1>4. /\ token' = answer.tok /\ now' = now /\ answer' = None /\ mu' = None /\ mu = r
        /\ expiresAt' = now + ExpiresIn(answer.expires_in)
    BY DEF FetchDone
  <1>5. expiresAt' \in Nat
    BY <1>1, <1>4
  <1>6. TypeOK'
    BY <1>1, <1>2, <1>4, <1>5 DEF TokenInv, TypeOK
  <1>7. MutexHeld'
    BY <1>2, <1>4, TimeAssumption DEF TokenInv, MutexHeld, TimeAssumption
  <1>8. AnswerHonest'
    BY <1>4 DEF AnswerHonest
  <1>9. CacheHonest'
    BY <1>1, <1>3, <1>4 DEF CacheHonest
  <1>10. SentInTime'
    <2> SUFFICES ASSUME NEW s \in Request, req'[s].pc = "send"
                 PROVE  /\ now' <= req'[s].at + Delay
                        /\ req'[s].tok # None /\ req'[s].tok.exp - req'[s].tok.issued > 2 * Delay
                             => req'[s].at + Delay < req'[s].tok.exp
      BY DEF SentInTime
    <2>1. CASE s = r
      BY <1>1, <1>2, <1>3, <1>4, <2>1
    <2>2. CASE s # r
      BY <1>2, <1>4, <2>2 DEF TokenInv, SentInTime
    <2> QED  BY <2>1, <2>2
  <1>11. NoRedundantFetch'
    BY <1>2, <1>4 DEF TokenInv, MutexHeld, NoRedundantFetch
  <1> QED  BY <1>6, <1>7, <1>8, <1>9, <1>10, <1>11 DEF TokenInv

LEMMA FetchFailsInv ==
    ASSUME TokenInv, NEW r \in Request, FetchFails(r)
    PROVE  TokenInv'
  <1>1. /\ req' \in [Request -> RequestState]
        /\ req'[r] = [pc |-> "send", tok |-> None, at |-> now]
        /\ \A s \in Request \ {r} : req'[s] = req[s]
    BY GoToFacts DEF TokenInv, FetchFails
  <1>2. TypeOK'
    BY <1>1 DEF TokenInv, TypeOK, FetchFails
  <1>3. MutexHeld'
    BY <1>1, TimeAssumption DEF TokenInv, MutexHeld, FetchFails, TimeAssumption
  <1>4. AnswerHonest' /\ CacheHonest'
    BY DEF TokenInv, AnswerHonest, CacheHonest, FetchFails
  <1>5. SentInTime'
    BY <1>1, TimeAssumption DEF TokenInv, TypeOK, SentInTime, FetchFails, TimeAssumption
  <1>6. NoRedundantFetch'
    BY <1>1 DEF TokenInv, NoRedundantFetch, FetchFails
  <1> QED  BY <1>2, <1>3, <1>4, <1>5, <1>6 DEF TokenInv

LEMMA ForwardedInv ==
    ASSUME TokenInv, NEW r \in Request, Forwarded(r)
    PROVE  TokenInv'
  <1>1. PICK pc \in {"arrived", "failed"} : Answered(r, pc)
    BY DEF Forwarded, Arrive, UpstreamFails
  <1>2. req[r].pc = "send" /\ UNCHANGED <<now, mu, answer, token, expiresAt>>
    BY DEF Forwarded, Arrive, UpstreamFails
  <1>3. /\ req' \in [Request -> RequestState]
        /\ req'[r].pc = pc
        /\ \A s \in Request \ {r} : req'[s] = req[s]
    BY <1>1 DEF Answered, TokenInv, TypeOK, RequestState
  <1>4. TypeOK'
    BY <1>2, <1>3 DEF TokenInv, TypeOK
  <1>5. MutexHeld'
    BY <1>2, <1>3 DEF TokenInv, MutexHeld
  <1>6. AnswerHonest' /\ CacheHonest'
    BY <1>2 DEF TokenInv, AnswerHonest, CacheHonest
  <1>7. SentInTime'
    BY <1>2, <1>3 DEF TokenInv, SentInTime
  <1>8. NoRedundantFetch'
    BY <1>2, <1>3 DEF TokenInv, NoRedundantFetch
  <1> QED  BY <1>4, <1>5, <1>6, <1>7, <1>8 DEF TokenInv

LEMMA TickInv ==
    ASSUME TokenInv, Tick
    PROVE  TokenInv'
  <1>1. /\ now \in Nat /\ now' = now + 1 /\ Delay \in Nat
        /\ UNCHANGED <<req, mu, answer, token, expiresAt>>
    BY TimeAssumption DEF TokenInv, TypeOK, Tick, TimeAssumption
  <1>2. TypeOK'
    BY <1>1 DEF TokenInv, TypeOK
  <1>3. MutexHeld'
    BY <1>1 DEF TokenInv, MutexHeld
  <1>4. AnswerHonest'
    <2> SUFFICES ASSUME answer # None
                 PROVE  /\ answer.tok.issued <= now' /\ now' <= answer.tok.issued + Delay
                        /\ answer.tok.issued < answer.tok.exp
                        /\ ExpiresIn(answer.expires_in) <= answer.tok.exp - answer.tok.issued
      BY <1>1 DEF AnswerHonest, ExpiresIn
    <2>1. answer.tok.issued \in Nat
      BY DEF TokenInv, TypeOK, Answer, Token
    <2>2. now < answer.tok.issued + Delay
      BY DEF Tick
    <2> QED  BY <1>1, <2>1, <2>2 DEF TokenInv, AnswerHonest
  <1>5. CacheHonest' /\ NoRedundantFetch'
    BY <1>1 DEF TokenInv, CacheHonest, NoRedundantFetch
  <1>6. SentInTime'
    <2> SUFFICES ASSUME NEW r \in Request, req[r].pc = "send"
                 PROVE  /\ now + 1 <= req[r].at + Delay
                        /\ req[r].tok # None /\ req[r].tok.exp - req[r].tok.issued > 2 * Delay
                             => req[r].at + Delay < req[r].tok.exp
      BY <1>1 DEF SentInTime
    <2>1. req[r].at \in Nat /\ now < req[r].at + Delay
      BY DEF TokenInv, TypeOK, RequestState, Tick
    <2> QED  BY <1>1, <2>1 DEF TokenInv, SentInTime
  <1> QED  BY <1>2, <1>3, <1>4, <1>5, <1>6 DEF TokenInv

(* The inductive invariant of the proxy: the mutex, the honesty of the     *)
(* endpoint's answer and of the cache, and the time at which requests set  *)
(* out.                                                                    *)
THEOREM TokenInvariant == Spec => []TokenInv
  <1>1. TokenInv /\ [Next]_vars => TokenInv'
    <2> SUFFICES ASSUME TokenInv, [Next]_vars PROVE TokenInv'
      OBVIOUS
    <2>1. ASSUME NEW r \in Request, Receive(r) \/ Lock(r) \/ Fetched(r) \/ Forwarded(r)
          PROVE  TokenInv'
      BY <2>1, ReceiveInv, GetCachedInv, BeginFetchInv, FetchDoneInv, FetchFailsInv, ForwardedInv
      DEF Lock, Fetched
    <2>2. CASE Issue
      BY <2>2, IssueInv
    <2>3. CASE Tick
      BY <2>3, TickInv
    <2>4. CASE UNCHANGED vars
      BY <2>4
      DEF vars, TokenInv, TypeOK, MutexHeld, AnswerHonest, CacheHonest, SentInTime,
          NoRedundantFetch
    <2> QED  BY <2>1, <2>2, <2>3, <2>4 DEF Next
  <1> QED  BY TokenInit, <1>1, PTL DEF Spec

(* Every reachable state of the token injector is well typed. *)
THEOREM TokenTypeCorrect == Spec => []TypeOK
  BY TokenInvariant, PTL DEF TokenInv

(* No bearer token that lives longer than its two ways expires before it   *)
(* arrives at the upstream API (Get's leeway and its use in the Director). *)
THEOREM TokensAlwaysFresh == Spec => []FreshInFlight
  <1>1. TokenInv => FreshInFlight
    <2> SUFFICES ASSUME TokenInv, NEW r \in Request, req[r].pc = "send", req[r].tok # None,
                        req[r].tok.exp - req[r].tok.issued > 2 * Delay
                 PROVE  now < req[r].tok.exp
      BY DEF FreshInFlight
    <2>1. now <= req[r].at + Delay /\ req[r].at + Delay < req[r].tok.exp
      BY DEF TokenInv, SentInTime
    <2>2. now \in Nat /\ req[r].at \in Nat /\ req[r].tok.exp \in Nat /\ Delay \in Nat
      BY TimeAssumption DEF TokenInv, TypeOK, RequestState, Token, TimeAssumption
    <2> QED  BY <2>1, <2>2
  <1> QED  BY TokenInvariant, <1>1, PTL

(* No fetch begins while the cached token has more than the leeway left,   *)
(* however many requests wait for the mutex (Get).                         *)
THEOREM FetchesNeverRedundant == Spec => []NoRedundantFetch
  BY TokenInvariant, PTL DEF TokenInv
=============================================================================
