--------------------------- MODULE McpSpawnProofs ---------------------------
(***************************************************************************)
(* McpSpawn, proved for all clients, ids, pipes and SSE connections, and   *)
(* for any number of failures and of messages that answer nothing.         *)
(*                                                                         *)
(* The id of a message is all that ties it to a request.  The invariant    *)
(* says when that is enough: as long as a request is registered and was    *)
(* not disturbed, whatever carries its id is the request itself or the     *)
(* response to it (OwnId).  That readLoop does not wait for it also needs  *)
(* that a request, or its response, is in one place only (OnePlace), so    *)
(* that the buffer of its channel is empty when the response comes.        *)
(***************************************************************************)
EXTENDS McpSpawn, SequenceTheorems, TLAPS

Own(m, r) == m.kind = "response" /\ m.of = r

(* readLoop has a message in hand. *)
Holding == reader.pc \in {"dispatch", "send"}

(* write holds the mutex, and only requests with an id wait. *)
SendInv ==
    /\ \A r \in Req : pc[r] = "write" <=> mu = r
    /\ \A r \in Req : pc[r] \in {"lock", "wait", "unregister"} => id[r] # NoId

(* An entry of pending is a request that is registered with that id, and   *)
(* so was the one that readLoop is sending to.                             *)
PendingInv ==
    /\ \A i \in Id : pending[i] # None => id[pending[i]] = i /\ Registered(pending[i])
    /\ reader.pc = "send" => reader.to \in Req

(* Whatever carries the id of r belongs to r. *)
OwnId(r) ==
    /\ \A q \in Req : Registered(q) /\ id[q] = id[r] => q = r
    /\ \A k \in 1..Len(stdin) : id[stdin[k]] = id[r] => stdin[k] = r
    /\ \A q \in working : id[q] = id[r] => q = r
    /\ \A k \in 1..Len(stdout) : stdout[k].id = id[r] => Own(stdout[k], r)
    /\ Holding /\ reader.msg.id = id[r] => Own(reader.msg, r)

(* Where a request is, or the response to it. *)
InStdin(r) == \E k \in 1..Len(stdin) : stdin[k] = r
InStdout(r) == \E k \in 1..Len(stdout) : stdout[k].of = r
AtReader(r) == Holding /\ reader.msg.of = r
InChan(r) == \E k \in 1..Len(chan[r]) : chan[r][k].of = r

OnePlace(r) ==
    /\ InStdin(r) => r \notin working /\ ~ InStdout(r) /\ ~ AtReader(r) /\ ~ InChan(r)
    /\ r \in working => ~ InStdout(r) /\ ~ AtReader(r) /\ ~ InChan(r)
    /\ InStdout(r) => ~ AtReader(r) /\ ~ InChan(r)
    /\ AtReader(r) => ~ InChan(r)
    /\ \A j, k \in 1..Len(stdin) : stdin[j] = r /\ stdin[k] = r => j = k
    /\ \A j, k \in 1..Len(stdout) : stdout[j].of = r /\ stdout[k].of = r => j = k
    /\ pc[r] \in {"new", "lock", "write"} =>
          ~ InStdin(r) /\ r \notin working /\ ~ InStdout(r) /\ ~ AtReader(r) /\ ~ InChan(r)

(* What r has been, or is about to be, handed. *)
Handed(r) ==
    /\ reader.pc = "send" /\ reader.to = r => Own(reader.msg, r)
    /\ \A k \in 1..Len(chan[r]) : Own(chan[r][k], r)
    /\ got[r].kind \in {"none", "accepted", "error"} \/ Own(got[r], r)

SpawnInv ==
    /\ TypeOK
    /\ SendInv
    /\ PendingInv
    /\ \A r \in Req \ disturbed : Registered(r) => OwnId(r)
    /\ \A r \in Req : OnePlace(r)
    /\ \A r \in Req \ disturbed : Handed(r)

-----------------------------------------------------------------------------
(* Sequences.                                                              *)

LEMMA AppendFacts ==
    ASSUME NEW S, NEW s \in Seq(S), NEW e \in S
    PROVE  /\ Append(s, e) \in Seq(S)
           /\ Len(Append(s, e)) = Len(s) + 1
           /\ Len(s) \in Nat
           /\ \A k \in 1..Len(s) : Append(s, e)[k] = s[k]
           /\ Append(s, e)[Len(s) + 1] = e
  OBVIOUS

LEMMA TailFacts ==
    ASSUME NEW S, NEW s \in Seq(S), s # << >>
    PROVE  /\ Tail(s) \in Seq(S)
           /\ Len(s) \in Nat /\ Len(s) >= 1
           /\ Len(Tail(s)) = Len(s) - 1
           /\ \A k \in 1..Len(Tail(s)) : k + 1 \in 1..Len(s) /\ Tail(s)[k] = s[k + 1]
           /\ Head(s) = s[1] /\ Head(s) \in S
  OBVIOUS

LEMMA JustOne == \A n \in Nat : n >= 1 /\ n <= 1 => n = 1
  OBVIOUS

LEMMA TailOfOne ==
    ASSUME NEW S, NEW s \in Seq(S), s # << >>, Len(s) <= 1
    PROVE  Len(s) = 1 /\ Tail(s) = << >>
  <1>1. Len(s) \in Nat /\ Len(s) >= 1
    BY TailFacts
  <1>2. Len(s) = 1
    BY <1>1, JustOne
  <1>3. Tail(s) \in Seq(S) /\ Len(Tail(s)) = 0
    BY <1>2, TailFacts
  <1> QED  BY <1>2, <1>3, EmptySeq

LEMMA PlainType ==
    /\ \A kind \in {"none", "accepted", "error"} : Plain(kind) \in Result
    /\ \A kind \in {"notification", "junk"} : Plain(kind) \in Msg
  BY DEF Plain, Result, Msg

Label == {"new", "lock", "write", "wait", "unregister", "done"}

LEMMA GotoFacts ==
    ASSUME TypeOK, NEW r \in Req, NEW label \in Label, Goto(r, label)
    PROVE  /\ pc' \in [Req -> Label] /\ pc'[r] = label
           /\ \A q \in Req \ {r} : pc'[q] = pc[q]
  BY DEF TypeOK, Goto, Label

LEMMA ReturnFacts ==
    ASSUME TypeOK, NEW r \in Req, NEW result \in Result, Return(r, result)
    PROVE  /\ got' \in [Req -> Result] /\ got'[r] = result
           /\ \A q \in Req \ {r} : got'[q] = got[q]
  BY DEF TypeOK, Return

LEMMA SpawnInit == Init => SpawnInv
  <1> SUFFICES ASSUME Init PROVE SpawnInv
    OBVIOUS
  <1>1. TypeOK
    BY PlainType, SpawnAssumption DEF Init, TypeOK, Scanning, Closed
  <1>2. SendInv /\ PendingInv
    BY SpawnAssumption DEF Init, SendInv, PendingInv, Scanning
  <1>3. \A r \in Req : ~ Registered(r) /\ OnePlace(r) /\ Handed(r)
    BY DEF Init, Registered, OnePlace, Handed, InStdin, InStdout, AtReader, InChan, Holding,
           Scanning, Plain
  <1> QED  BY <1>1, <1>2, <1>3 DEF SpawnInv

(* Steps that move nothing: requests, responses and channels stay. *)
Still == UNCHANGED <<chan, id, stdin, stdout, working, reader>>

LEMMA StillPlace ==
    ASSUME NEW r \in Req, Still, OnePlace(r), pc'[r] \in {"new", "lock", "write"} => pc[r] \in {"new", "lock", "write"}
    PROVE  OnePlace(r)'
  BY DEF Still, OnePlace, InStdin, InStdout, AtReader, InChan, Holding

LEMMA StillHanded ==
    ASSUME NEW r \in Req, Still, Handed(r), got'[r] = got[r] \/ got'[r].kind \in {"none", "accepted", "error"}
    PROVE  Handed(r)'
  BY DEF Still, Handed, Own

LEMMA StillOwnId ==
    ASSUME NEW r \in Req, Still, OwnId(r),
           \A q \in Req : Registered(q)' => Registered(q)
    PROVE  OwnId(r)'
  BY DEF Still, OwnId, Own, Holding

LEMMA CancelInv ==
    ASSUME SpawnInv, NEW r \in Req, Cancel(r)
    PROVE  SpawnInv'
  <1>1. Still /\ UNCHANGED <<pc, got, mu, pending, disturbed, sse>>
    BY DEF Cancel, Still, sendVars, procVars, readVars
  <1>2. TypeOK'
    BY <1>1, SpawnAssumption DEF SpawnInv, TypeOK, Cancel, Fault, procVars, Still
  <1>3. SendInv' /\ PendingInv'
    BY <1>1 DEF SpawnInv, SendInv, PendingInv, Registered, Still
  <1>4. \A q \in Req : Registered(q)' = Registered(q)
    BY <1>1 DEF Registered, Still
  <1> QED  BY <1>1, <1>2, <1>3, <1>4, StillPlace, StillHanded, StillOwnId DEF SpawnInv

LEMMA RegisterInv ==
    ASSUME SpawnInv, NEW r \in Req, Register(r)
    PROVE  SpawnInv'
  <1>1. Still /\ UNCHANGED <<got, mu, sse, cancelled, unasked, faults>>
    BY DEF Register, Still, ctxVars, procVars, readVars
  <1>2. TypeOK'
    <2>1. pc' \in [Req -> Label]
      BY GotoFacts DEF SpawnInv, Register, Label
    <2>2. pending' \in [Id -> Req \cup {None}] /\ disturbed' \subseteq Req
      BY DEF SpawnInv, TypeOK, Register, SameId
    <2> QED  BY <1>1, <2>1, <2>2 DEF SpawnInv, TypeOK, Still, Label
  <1>3. \A q \in Req : Registered(q)' <=> Registered(q) \/ q = r
    BY <1>1 DEF SpawnInv, TypeOK, Register, Goto, Registered, Still
  <1>4. SendInv'
    BY <1>1 DEF SpawnInv, TypeOK, SendInv, Register, Goto, Still
  <1>5. PendingInv'
    BY <1>1, <1>3, SpawnAssumption DEF SpawnInv, TypeOK, PendingInv, Register, Still
  <1>6. ASSUME NEW q \in Req \ disturbed', Registered(q)'
        PROVE  OwnId(q)'
    <2>1. CASE q = r
      <3>1. SameId(r) = {} /\ ~ InTransit(id[r])
        BY <1>6, <2>1 DEF Register
      <3>2. \A p \in Req : Registered(p)' /\ id[p] = id[r] => p = r
        BY <3>1, <1>3 DEF SameId
      <3> QED  BY <1>1, <2>1, <3>1, <3>2 DEF InTransit, OwnId, Still, Holding
    <2>2. CASE q # r
      <3>1. q \notin disturbed /\ Registered(q) /\ id[q] # id[r]
        BY <1>3, <1>6, <2>2 DEF Register, SameId
      <3>2. OwnId(q)
        BY <3>1 DEF SpawnInv
      <3> QED  BY <1>1, <1>3, <3>1, <3>2 DEF OwnId, Own, Still, Holding
    <2> QED  BY <2>1, <2>2
  <1>7. \A q \in Req : OnePlace(q)'
    BY <1>1, StillPlace DEF SpawnInv, TypeOK, Register, Goto
  <1>8. \A q \in Req \ disturbed' : Handed(q)'
    BY <1>1, StillHanded DEF SpawnInv, Register
  <1> QED  BY <1>2, <1>4, <1>5, <1>6, <1>7, <1>8 DEF SpawnInv

LEMMA LockInv ==
    ASSUME SpawnInv, NEW r \in Req, Lock(r)
    PROVE  SpawnInv'
  <1>1. Still /\ UNCHANGED <<got, pending, sse, cancelled, disturbed, unasked, faults>>
    BY DEF Lock, Still, ctxVars, procVars, readVars
  <1>2. TypeOK'
    BY <1>1 DEF SpawnInv, TypeOK, Lock, Goto, Still
  <1>3. \A q \in Req : Registered(q)' <=> Registered(q)
    BY <1>1 DEF SpawnInv, TypeOK, Lock, Goto, Registered, Still
  <1>4. SendInv'
    BY <1>1, SpawnAssumption DEF SpawnInv, TypeOK, SendInv, Lock, Goto, Still
  <1>5. PendingInv'
    BY <1>1, <1>3 DEF SpawnInv, TypeOK, PendingInv, Still
  <1>6. \A q \in Req : OnePlace(q)'
    BY <1>1, StillPlace DEF SpawnInv, TypeOK, Lock, Goto
  <1> QED  BY <1>1, <1>2, <1>3, <1>4, <1>5, <1>6, StillHanded, StillOwnId DEF SpawnInv

LEMMA WriteInv ==
    ASSUME SpawnInv, NEW r \in Req, Write(r)
    PROVE  SpawnInv'
  <1>1. UNCHANGED <<pending, chan, id, stdout, working, reader, sse, cancelled, disturbed, unasked, faults>>
    BY DEF Write, ctxVars, readVars
  <1>2. TypeOK'
    <2>1. pc' \in [Req -> Label]
      BY GotoFacts DEF SpawnInv, Write, Label
    <2>2. got' \in [Req -> Result]
      BY ReturnFacts, PlainType DEF SpawnInv, TypeOK, Write
    <2>3. stdin' \in Seq(Req) /\ mu' \in Req \cup {None}
      BY AppendFacts DEF SpawnInv, TypeOK, Write
    <2> QED  BY <1>1, <2>1, <2>2, <2>3 DEF SpawnInv, TypeOK, Label
  <1>3. \A q \in Req : /\ Registered(q)' <=> Registered(q)
                       /\ q # r => pc'[q] = pc[q] /\ got'[q] = got[q]
    BY <1>1 DEF SpawnInv, TypeOK, Write, Goto, Return, Registered
  <1>4. SendInv'
    BY <1>1, SpawnAssumption DEF SpawnInv, TypeOK, SendInv, Write, Goto
  <1>5. PendingInv'
    BY <1>1, <1>3 DEF SpawnInv, TypeOK, PendingInv
  <1>6. /\ Len(stdin) \in Nat /\ Len(stdin') = Len(stdin) + 1
        /\ \A k \in 1..Len(stdin) : stdin'[k] = stdin[k]
        /\ stdin'[Len(stdin) + 1] = r
    BY AppendFacts DEF SpawnInv, TypeOK, Write
  <1>7. ASSUME NEW q \in Req \ disturbed, Registered(q)
        PROVE  OwnId(q)'
    <2>1. OwnId(q) /\ id[q] # NoId
      BY <1>7 DEF SpawnInv, Registered
    <2>2. id[r] = id[q] => r = q
      BY <2>1 DEF OwnId, Registered, Write
    <2> QED  BY <1>1, <1>3, <1>6, <2>1, <2>2 DEF OwnId, Own, Holding
  <1>8. ASSUME NEW q \in Req
        PROVE  OnePlace(q)'
    <2>1. OnePlace(q)
      BY DEF SpawnInv
    <2>2. CASE q = r
      <3>1. ~ InStdin(r) /\ r \notin working /\ ~ InStdout(r) /\ ~ AtReader(r) /\ ~ InChan(r)
        BY <2>1, <2>2 DEF OnePlace, Write
      <3>2. pc'[r] \in {"wait", "done"}
        BY DEF SpawnInv, TypeOK, Write, Goto
      <3> QED  BY <1>1, <1>6, <2>1, <2>2, <3>1, <3>2
                DEF OnePlace, InStdin, InStdout, AtReader, InChan, Holding
    <2>3. CASE q # r
      BY <1>1, <1>3, <1>6, <2>1, <2>3 DEF OnePlace, InStdin, InStdout, AtReader, InChan, Holding
    <2> QED  BY <2>2, <2>3
  <1>9. \A q \in Req \ disturbed : Handed(q)'
    <2>1. got'[r] = got[r] \/ got'[r].kind = "accepted"
      BY ReturnFacts, PlainType DEF SpawnInv, Write, Plain
    <2> QED  BY <1>1, <1>3, <2>1 DEF SpawnInv, Handed, Own
  <1> QED  BY <1>1, <1>2, <1>3, <1>4, <1>5, <1>7, <1>8, <1>9 DEF SpawnInv

(* Send ends without a response. *)
LEMMA EndInv ==
    ASSUME SpawnInv, NEW r \in Req, WriteFails(r) \/ GiveUp(r) \/ Unregister(r)
    PROVE  SpawnInv'
  <1>1. Still /\ UNCHANGED <<sse, cancelled, disturbed, unasked>>
    BY DEF WriteFails, GiveUp, Unregister, Still, ctxVars, procVars, readVars
  <1>2. TypeOK'
    <2>1. pc' \in [Req -> Label]
      BY GotoFacts DEF SpawnInv, WriteFails, GiveUp, Unregister, Label
    <2>2. got' \in [Req -> Result]
      BY ReturnFacts, PlainType DEF SpawnInv, TypeOK, WriteFails, GiveUp, Unregister
    <2>3. pending' \in [Id -> Req \cup {None}] /\ mu' \in Req \cup {None}
      BY DEF SpawnInv, TypeOK, WriteFails, GiveUp, Unregister
    <2>4. faults' \in Nat
      BY DEF SpawnInv, TypeOK, WriteFails, GiveUp, Unregister, Fault
    <2> QED  BY <1>1, <2>1, <2>2, <2>3, <2>4 DEF SpawnInv, TypeOK, Still, Label
  <1>3. /\ \A q \in Req \ {r} : pc'[q] = pc[q] /\ got'[q] = got[q]
        /\ pc'[r] \in {"unregister", "done"} /\ pc[r] \in {"write", "wait", "unregister"}
        /\ got'[r] = got[r] \/ got'[r].kind = "error"
    BY DEF SpawnInv, TypeOK, WriteFails, GiveUp, Unregister, Goto, Return, Plain
  <1>4. \A q \in Req : /\ Registered(q)' => Registered(q)
                       /\ q # r => (Registered(q)' <=> Registered(q))
    BY <1>1, <1>3 DEF Registered, Still
  <1>5. SendInv'
    <2>1. id[r] = NoId => pc[r] = "write" /\ pc'[r] = "done"
      BY GotoFacts DEF SpawnInv, SendInv, WriteFails, GiveUp, Unregister, Label
    <2>2. pc[r] = "write" => mu' = None
      BY DEF WriteFails, GiveUp, Unregister
    <2>3. pc[r] # "write" => mu' = mu
      BY DEF WriteFails, GiveUp, Unregister
    <2> QED  BY <1>1, <1>3, <2>1, <2>2, <2>3, SpawnAssumption DEF SpawnInv, SendInv, Still
  <1>6. PendingInv'
    <2>1. CASE Unregister(r)
      BY <1>1, <1>4, <2>1 DEF SpawnInv, TypeOK, PendingInv, SendInv, Unregister, Still
    <2>2. CASE WriteFails(r) \/ GiveUp(r)
      <3>1. pending' = pending
        BY <2>2 DEF WriteFails, GiveUp
      <3>2. Registered(r) => Registered(r)'
        BY <1>1, <2>2 DEF SpawnInv, TypeOK, WriteFails, GiveUp, Goto, Registered, Still
      <3> QED  BY <1>1, <1>4, <3>1, <3>2 DEF SpawnInv, TypeOK, PendingInv, Still
    <2> QED  BY <2>1, <2>2
  <1>7. \A q \in Req : OnePlace(q)'
    BY <1>1, <1>3, StillPlace DEF SpawnInv
  <1>8. \A q \in Req \ disturbed : Handed(q)'
    BY <1>1, <1>3, StillHanded DEF SpawnInv
  <1> QED  BY <1>1, <1>2, <1>4, <1>5, <1>6, <1>7, <1>8, StillOwnId DEF SpawnInv

LEMMA ReceiveInv ==
    ASSUME SpawnInv, NEW r \in Req, Receive(r)
    PROVE  SpawnInv'
  <1>1. UNCHANGED <<mu, pending, id, cancelled, stdin, stdout, working, unasked, reader, sse, disturbed, faults>>
    BY DEF Receive, ctxVars, procVars
  <1>2. /\ chan[r] \in Seq(Msg) /\ chan[r] # << >> /\ Len(chan[r]) = 1
        /\ Head(chan[r]) = chan[r][1] /\ Head(chan[r]) \in Msg /\ chan'[r] = << >>
        /\ \A q \in Req \ {r} : chan'[q] = chan[q]
    <2>1. chan[r] \in Seq(Msg) /\ chan[r] # << >> /\ Len(chan[r]) <= 1
      BY DEF SpawnInv, TypeOK, Receive
    <2>2. Len(chan[r]) = 1 /\ Tail(chan[r]) = << >>
      BY <2>1, TailOfOne
    <2>3. Head(chan[r]) = chan[r][1] /\ Head(chan[r]) \in Msg
      BY <2>1, TailFacts
    <2> QED  BY <2>1, <2>2, <2>3 DEF SpawnInv, TypeOK, Receive
  <1>3. /\ got'[r] = chan[r][1] /\ pc[r] = "wait" /\ pc'[r] = "unregister"
        /\ \A q \in Req \ {r} : pc'[q] = pc[q] /\ got'[q] = got[q]
    BY <1>2 DEF SpawnInv, TypeOK, Receive, Goto, Return
  <1>4. TypeOK'
    <2>1. chan' \in [Req -> Seq(Msg)] /\ \A q \in Req : Len(chan'[q]) <= 1
      BY <1>2 DEF SpawnInv, TypeOK, Receive
    <2>2. got' \in [Req -> Result] /\ pc' \in [Req -> {"new", "lock", "write", "wait", "unregister", "done"}]
      BY <1>2 DEF SpawnInv, TypeOK, Receive, Goto, Return, Result
    <2> QED  BY <1>1, <2>1, <2>2 DEF SpawnInv, TypeOK
  <1>5. \A q \in Req : Registered(q)' <=> Registered(q)
    BY <1>1, <1>3 DEF Registered
  <1>6. SendInv' /\ PendingInv'
    BY <1>1, <1>3, <1>5 DEF SpawnInv, TypeOK, SendInv, PendingInv
  <1>7. \A q \in Req : OwnId(q) => OwnId(q)'
    BY <1>1, <1>5 DEF OwnId, Own, Holding
  <1>8. \A q \in Req : OnePlace(q)'
    BY <1>1, <1>2, <1>3 DEF SpawnInv, OnePlace, InStdin, InStdout, AtReader, InChan, Holding
  <1>9. \A q \in Req \ disturbed : Handed(q)'
    BY <1>1, <1>2, <1>3 DEF SpawnInv, Handed, Own
  <1> QED  BY <1>1, <1>4, <1>5, <1>6, <1>7, <1>8, <1>9 DEF SpawnInv

-----------------------------------------------------------------------------
(* The subprocess.                                                         *)

(* What the subprocess and readLoop leave to Send. *)
SendStill == UNCHANGED <<pc, got, mu, pending, id, cancelled>>

LEMMA SendStillInv ==
    ASSUME SpawnInv, SendStill
    PROVE  SendInv' /\ \A q \in Req : Registered(q)' <=> Registered(q)
  BY DEF SpawnInv, SendInv, SendStill, Registered

LEMMA PendingStill ==
    ASSUME SpawnInv, SendStill, reader' = reader \/ reader'.pc # "send"
    PROVE  PendingInv'
  BY DEF SpawnInv, PendingInv, SendStill, Registered

LEMMA ReadStdinInv ==
    ASSUME SpawnInv, ReadStdin
    PROVE  SpawnInv'
  <1>1. SendStill /\ UNCHANGED <<stdout, unasked, reader, chan, sse, disturbed, faults>>
    BY DEF ReadStdin, SendStill, sendVars, ctxVars, readVars
  <1>2. /\ stdin' \in Seq(Req) /\ Len(stdin) \in Nat /\ Len(stdin) >= 1
        /\ Len(stdin') = Len(stdin) - 1
        /\ \A k \in 1..Len(stdin') : k + 1 \in 1..Len(stdin) /\ stdin'[k] = stdin[k + 1]
        /\ Head(stdin) = stdin[1] /\ Head(stdin) \in Req
    BY TailFacts DEF SpawnInv, TypeOK, ReadStdin
  <1>3. working \subseteq working' /\ working' \subseteq working \cup {stdin[1]}
    BY <1>2 DEF ReadStdin
  <1>4. TypeOK'
    BY <1>1, <1>2, <1>3 DEF SpawnInv, TypeOK, SendStill
  <1>5. SendInv' /\ PendingInv' /\ \A q \in Req : Registered(q)' <=> Registered(q)
    BY <1>1, SendStillInv, PendingStill
  <1>6. ASSUME NEW q \in Req, OwnId(q)
        PROVE  OwnId(q)'
    <2>1. id[stdin[1]] = id[q] => stdin[1] = q
      BY <1>2, <1>6 DEF OwnId
    <2> QED  BY <1>1, <1>2, <1>3, <1>5, <1>6, <2>1 DEF OwnId, Own, Holding, SendStill
  <1>7. ASSUME NEW q \in Req
        PROVE  OnePlace(q)'
    <2>1. OnePlace(q)
      BY DEF SpawnInv
    <2>2. /\ InStdout(q)' <=> InStdout(q)
          /\ AtReader(q)' <=> AtReader(q)
          /\ InChan(q)' <=> InChan(q)
          /\ InStdin(q)' => InStdin(q) /\ stdin[1] # q
          /\ stdin[1] = q => InStdin(q)
      BY <1>1, <1>2, <2>1 DEF OnePlace, InStdin, InStdout, AtReader, InChan, Holding
    <2>3. \A j, k \in 1..Len(stdin') : stdin'[j] = q /\ stdin'[k] = q => j = k
      <3> SUFFICES ASSUME NEW j \in 1..Len(stdin'), NEW k \in 1..Len(stdin'),
                          stdin'[j] = q, stdin'[k] = q
                   PROVE  j = k
        OBVIOUS
      <3>1. /\ j + 1 \in 1..Len(stdin) /\ stdin[j + 1] = q
            /\ k + 1 \in 1..Len(stdin) /\ stdin[k + 1] = q
        BY <1>2
      <3>2. j + 1 = k + 1
        BY <3>1, <2>1 DEF OnePlace
      <3> QED  BY <3>2
    <2>4. \A j, k \in 1..Len(stdout') : stdout'[j].of = q /\ stdout'[k].of = q => j = k
      BY <1>1, <2>1 DEF OnePlace
    <2>5. q \in working' => q \in working \/ (InStdin(q) /\ ~ InStdin(q)')
      BY <1>3, <2>2
    <2> QED  BY <1>1, <2>1, <2>2, <2>3, <2>4, <2>5 DEF OnePlace, SendStill
  <1>8. \A q \in Req \ disturbed : Handed(q)'
    BY <1>1 DEF SpawnInv, Handed, Own, SendStill
  <1> QED  BY <1>1, <1>4, <1>5, <1>6, <1>7, <1>8 DEF SpawnInv

LEMMA AnswerInv ==
    ASSUME SpawnInv, NEW r \in Req, Answer(r)
    PROVE  SpawnInv'
  <1> DEFINE m == [kind |-> "response", id |-> id[r], of |-> r]
  <1>1. SendStill /\ UNCHANGED <<stdin, unasked, reader, chan, sse, disturbed, faults>>
    BY DEF Answer, SendStill, sendVars, ctxVars, readVars
  <1>2. m \in Msg
    BY DEF SpawnInv, TypeOK, Msg
  <1>3. /\ stdout' \in Seq(Msg) /\ Len(stdout) \in Nat /\ Len(stdout') = Len(stdout) + 1
        /\ \A k \in 1..Len(stdout) : stdout'[k] = stdout[k]
        /\ stdout'[Len(stdout) + 1] = m
        /\ r \in working /\ working' = working \ {r}
    BY <1>2, AppendFacts DEF SpawnInv, TypeOK, Answer, Emit
  <1>4. m.kind = "response" /\ m.of = r /\ m.id = id[r]
    OBVIOUS
  <1> HIDE DEF m
  <1>5. TypeOK'
    BY <1>1, <1>3 DEF SpawnInv, TypeOK, SendStill
  <1>6. SendInv' /\ PendingInv' /\ \A q \in Req : Registered(q)' <=> Registered(q)
    BY <1>1, SendStillInv, PendingStill
  <1>7. ASSUME NEW q \in Req, OwnId(q)
        PROVE  OwnId(q)'
    <2>1. id[r] = id[q] => Own(m, q)
      BY <1>3, <1>4, <1>7 DEF OwnId, Own
    <2> QED  BY <1>1, <1>3, <1>4, <1>6, <1>7, <2>1 DEF OwnId, Own, Holding, SendStill
  <1>8. ASSUME NEW q \in Req
        PROVE  OnePlace(q)'
    <2>1. OnePlace(q)
      BY DEF SpawnInv
    <2>2. /\ InStdin(q)' <=> InStdin(q)
          /\ AtReader(q)' <=> AtReader(q)
          /\ InChan(q)' <=> InChan(q)
          /\ InStdout(q)' => InStdout(q) \/ q = r
      BY <1>1, <1>3, <1>4 DEF InStdin, InStdout, AtReader, InChan, Holding
    <2>3. \A j, k \in 1..Len(stdin') : stdin'[j] = q /\ stdin'[k] = q => j = k
      BY <1>1, <2>1 DEF OnePlace
    <2>4. \A j, k \in 1..Len(stdout') : stdout'[j].of = q /\ stdout'[k].of = q => j = k
      <3>1. q = r => ~ InStdout(q)
        BY <1>3, <2>1 DEF OnePlace
      <3> QED  BY <1>3, <1>4, <2>1, <3>1 DEF OnePlace, InStdout
    <2> QED  BY <1>1, <1>3, <2>1, <2>2, <2>3, <2>4 DEF OnePlace, SendStill
  <1>9. \A q \in Req \ disturbed : Handed(q)'
    BY <1>1 DEF SpawnInv, Handed, Own, SendStill
  <1> QED  BY <1>1, <1>5, <1>6, <1>7, <1>8, <1>9 DEF SpawnInv

LEMMA EmitUnaskedInv ==
    ASSUME SpawnInv, EmitUnasked
    PROVE  SpawnInv'
  <1>1. SendStill /\ UNCHANGED <<stdin, working, reader, chan, sse, faults>>
    BY DEF EmitUnasked, SendStill, sendVars, ctxVars, readVars
  <1>2. PICK m \in Msg :
           /\ m.of = None
           /\ Emit(m)
           /\ disturbed' = disturbed \cup {q \in Req : Registered(q) /\ id[q] = m.id}
    BY PlainType DEF EmitUnasked, Plain, Msg
  <1>3. /\ stdout' \in Seq(Msg) /\ Len(stdout) \in Nat /\ Len(stdout') = Len(stdout) + 1
        /\ \A k \in 1..Len(stdout) : stdout'[k] = stdout[k]
        /\ stdout'[Len(stdout) + 1] = m
    BY <1>2, AppendFacts DEF SpawnInv, TypeOK, Emit
  <1>4. TypeOK'
    BY <1>1, <1>2, <1>3 DEF SpawnInv, TypeOK, SendStill, EmitUnasked
  <1>5. SendInv' /\ PendingInv' /\ \A q \in Req : Registered(q)' <=> Registered(q)
    BY <1>1, SendStillInv, PendingStill
  <1>6. ASSUME NEW q \in Req \ disturbed', Registered(q)
        PROVE  OwnId(q)'
    <2>1. OwnId(q) /\ m.id # id[q]
      BY <1>2, <1>6 DEF SpawnInv
    <2> QED  BY <1>1, <1>3, <1>5, <2>1 DEF OwnId, Own, Holding, SendStill
  <1>7. ASSUME NEW q \in Req
        PROVE  OnePlace(q)'
    <2>1. OnePlace(q) /\ m.of # q
      BY <1>2, SpawnAssumption DEF SpawnInv
    <2>2. /\ InStdin(q)' <=> InStdin(q)
          /\ AtReader(q)' <=> AtReader(q)
          /\ InChan(q)' <=> InChan(q)
          /\ InStdout(q)' => InStdout(q)
      BY <1>1, <1>3, <2>1 DEF InStdin, InStdout, AtReader, InChan, Holding
    <2>3. \A j, k \in 1..Len(stdin') : stdin'[j] = q /\ stdin'[k] = q => j = k
      BY <1>1, <2>1 DEF OnePlace
    <2>4. \A j, k \in 1..Len(stdout') : stdout'[j].of = q /\ stdout'[k].of = q => j = k
      BY <1>3, <2>1 DEF OnePlace
    <2> QED  BY <1>1, <2>1, <2>2, <2>3, <2>4 DEF OnePlace, SendStill
  <1>8. \A q \in Req \ disturbed' : Handed(q)'
    BY <1>1, <1>2 DEF SpawnInv, Handed, Own, SendStill
  <1> QED  BY <1>1, <1>4, <1>5, <1>6, <1>7, <1>8 DEF SpawnInv

-----------------------------------------------------------------------------
(* readLoop and the SSE connections.                                       *)

LEMMA ScanInv ==
    ASSUME SpawnInv, Scan
    PROVE  SpawnInv'
  <1>1. SendStill /\ UNCHANGED <<stdin, working, unasked, chan, sse, disturbed, faults>>
    BY DEF Scan, SendStill, sendVars, ctxVars
  <1>2. /\ stdout' \in Seq(Msg) /\ Len(stdout) \in Nat /\ Len(stdout) >= 1
        /\ Len(stdout') = Len(stdout) - 1
        /\ \A k \in 1..Len(stdout') : k + 1 \in 1..Len(stdout) /\ stdout'[k] = stdout[k + 1]
        /\ Head(stdout) = stdout[1] /\ Head(stdout) \in Msg
    BY TailFacts DEF SpawnInv, TypeOK, Scan
  <1>3. /\ reader.pc = "scan"
        /\ reader'.pc \in {"scan", "dispatch"}
        /\ reader'.pc = "dispatch" => reader'.msg = stdout[1]
    BY <1>2 DEF Scan
  <1>4. TypeOK'
    <2>1. reader' \in [pc : {"scan", "dispatch", "send", "ended"}, msg : Msg, to : Req \cup {None}]
      BY <1>2 DEF SpawnInv, TypeOK, Scan
    <2> QED  BY <1>1, <1>2, <2>1 DEF SpawnInv, TypeOK, SendStill
  <1>5. SendInv' /\ PendingInv' /\ \A q \in Req : Registered(q)' <=> Registered(q)
    BY <1>1, <1>3, SendStillInv, PendingStill
  <1>6. ASSUME NEW q \in Req, OwnId(q)
        PROVE  OwnId(q)'
    <2>1. stdout[1].id = id[q] => Own(stdout[1], q)
      BY <1>2, <1>6 DEF OwnId
    <2> QED  BY <1>1, <1>2, <1>3, <1>5, <1>6, <2>1 DEF OwnId, Own, Holding, SendStill
  <1>7. ASSUME NEW q \in Req
        PROVE  OnePlace(q)'
    <2>1. OnePlace(q)
      BY DEF SpawnInv
    <2>2. \A j, k \in 1..Len(stdout') : stdout'[j].of = q /\ stdout'[k].of = q => j = k
      <3> SUFFICES ASSUME NEW j \in 1..Len(stdout'), NEW k \in 1..Len(stdout'),
                          stdout'[j].of = q, stdout'[k].of = q
                   PROVE  j = k
        OBVIOUS
      <3>1. /\ j + 1 \in 1..Len(stdout) /\ stdout[j + 1].of = q
            /\ k + 1 \in 1..Len(stdout) /\ stdout[k + 1].of = q
        BY <1>2
      <3>2. j + 1 = k + 1
        BY <3>1, <2>1 DEF OnePlace
      <3> QED  BY <3>2
    <2>3. \A j, k \in 1..Len(stdin') : stdin'[j] = q /\ stdin'[k] = q => j = k
      BY <1>1, <2>1 DEF OnePlace
    <2>4. /\ InStdin(q)' <=> InStdin(q)
          /\ InChan(q)' <=> InChan(q)
          /\ InStdout(q)' => InStdout(q) /\ stdout[1].of # q
          /\ stdout[1].of = q => InStdout(q)
          /\ AtReader(q)' => stdout[1].of = q
      BY <1>1, <1>2, <1>3, <2>1 DEF OnePlace, InStdin, InStdout, AtReader, InChan, Holding
    <2> QED  BY <1>1, <2>1, <2>2, <2>3, <2>4 DEF OnePlace, SendStill
  <1>8. \A q \in Req \ disturbed : Handed(q)'
    BY <1>1, <1>3 DEF SpawnInv, Handed, Own, SendStill
  <1> QED  BY <1>1, <1>4, <1>5, <1>6, <1>7, <1>8 DEF SpawnInv

LEMMA LookupInv ==
    ASSUME SpawnInv, Lookup
    PROVE  SpawnInv'
  <1>1. SendStill /\ UNCHANGED <<stdin, stdout, working, unasked, chan, sse, disturbed, faults>>
    BY DEF Lookup, SendStill, sendVars, ctxVars, procVars
  <1>2. reader.msg \in Msg /\ reader.msg.id \in Id /\ reader.pc = "dispatch"
    BY DEF SpawnInv, TypeOK, Lookup, Msg
  <1>3. \/ reader' = Scanning
        \/ /\ reader'.pc = "send" /\ reader'.msg = reader.msg
           /\ reader'.to = pending[reader.msg.id] /\ pending[reader.msg.id] # None
    BY DEF SpawnInv, TypeOK, Lookup, Recipient
  <1>4. TypeOK'
    <2>1. reader' \in [pc : {"scan", "dispatch", "send", "ended"}, msg : Msg, to : Req \cup {None}]
      BY <1>2, PlainType DEF SpawnInv, TypeOK, Lookup, Recipient, Scanning
    <2> QED  BY <1>1, <2>1 DEF SpawnInv, TypeOK, SendStill
  <1>5. SendInv' /\ \A q \in Req : Registered(q)' <=> Registered(q)
    BY <1>1, SendStillInv
  <1>6. PendingInv'
    BY <1>1, <1>2, <1>3, <1>5 DEF SpawnInv, TypeOK, PendingInv, SendStill, Scanning
  <1>7. Holding' => Holding /\ reader'.msg = reader.msg
    BY <1>2, <1>3 DEF Holding, Scanning
  <1>8. \A q \in Req : OwnId(q) => OwnId(q)'
    BY <1>1, <1>5, <1>7 DEF OwnId, Own, SendStill
  <1>9. \A q \in Req : OnePlace(q)'
    BY <1>1, <1>7 DEF SpawnInv, OnePlace, InStdin, InStdout, AtReader, InChan, SendStill
  <1>10. ASSUME NEW q \in Req \ disturbed
         PROVE  Handed(q)'
    <2>1. ASSUME reader'.pc = "send", reader'.to = q
          PROVE  Own(reader'.msg, q)
      <3>1. pending[reader.msg.id] = q /\ reader'.msg = reader.msg
        BY <1>3, <2>1 DEF Scanning
      <3>2. id[q] = reader.msg.id /\ Registered(q)
        BY <1>2, <1>3, <2>1, <3>1, SpawnAssumption DEF SpawnInv, PendingInv
      <3>3. OwnId(q)
        BY <3>2 DEF SpawnInv
      <3> QED  BY <1>2, <3>1, <3>2, <3>3 DEF OwnId, Holding
    <2> QED  BY <1>1, <2>1 DEF SpawnInv, Handed, Own, SendStill
  <1> QED  BY <1>1, <1>4, <1>5, <1>6, <1>8, <1>9, <1>10 DEF SpawnInv

LEMMA SendToChannelInv ==
    ASSUME SpawnInv, SendToChannel
    PROVE  SpawnInv'
  <1> DEFINE t == reader.to
  <1>1. SendStill /\ UNCHANGED <<stdin, stdout, working, unasked, sse, disturbed, faults>>
    BY DEF SendToChannel, SendStill, sendVars, ctxVars, procVars
  <1>2. /\ t \in Req /\ reader.pc = "send" /\ reader.msg \in Msg
        /\ reader' = Scanning /\ ~ Holding' /\ reader'.pc = "scan"
    BY DEF SpawnInv, TypeOK, PendingInv, SendToChannel, Scanning, Holding
  <1>3. chan[t] \in Seq(Msg) /\ Len(chan[t]) \in Nat /\ Len(chan[t]) < 1
    BY <1>2 DEF SpawnInv, TypeOK, SendToChannel, ChanFree
  <1>4. /\ chan'[t] \in Seq(Msg) /\ Len(chan'[t]) = 1 /\ chan'[t][1] = reader.msg
        /\ \A q \in Req \ {t} : chan'[q] = chan[q]
        /\ chan' \in [Req -> Seq(Msg)]
    <2>1. chan' = [chan EXCEPT ![t] = Append(chan[t], reader.msg)]
      BY DEF SendToChannel
    <2>2. /\ Append(chan[t], reader.msg) \in Seq(Msg)
          /\ Len(Append(chan[t], reader.msg)) = Len(chan[t]) + 1
          /\ Append(chan[t], reader.msg)[Len(chan[t]) + 1] = reader.msg
      BY <1>2, <1>3, AppendFacts
    <2>3. Len(chan[t]) = 0
      BY <1>3
    <2>4. chan \in [Req -> Seq(Msg)]
      BY DEF SpawnInv, TypeOK
    <2>5. chan'[t] = Append(chan[t], reader.msg) /\ \A q \in Req \ {t} : chan'[q] = chan[q]
      BY <1>2, <2>1, <2>4
    <2>6. chan' \in [Req -> Seq(Msg)]
      BY <1>2, <2>1, <2>2, <2>4
    <2> QED  BY <2>2, <2>3, <2>5, <2>6
  <1> HIDE DEF t
  <1>5. TypeOK'
    <2>1. \A q \in Req : Len(chan'[q]) <= 1
      <3>1. \A q \in Req \ {t} : Len(chan'[q]) <= 1
        BY <1>4 DEF SpawnInv, TypeOK
      <3>2. Len(chan'[t]) <= 1
        BY <1>4
      <3> QED  BY <3>1, <3>2
    <2>2. reader' \in [pc : {"scan", "dispatch", "send", "ended"}, msg : Msg, to : Req \cup {None}]
      BY <1>2, PlainType DEF Scanning
    <2> QED  BY <1>1, <1>4, <2>1, <2>2 DEF SpawnInv, TypeOK, SendStill
  <1>6. SendInv' /\ PendingInv' /\ \A q \in Req : Registered(q)' <=> Registered(q)
    BY <1>1, <1>2, SendStillInv, PendingStill
  <1>7. \A q \in Req : OwnId(q) => OwnId(q)'
    BY <1>1, <1>2, <1>6 DEF OwnId, Own, SendStill
  <1>8. ASSUME NEW q \in Req
        PROVE  OnePlace(q)'
    <2>1. OnePlace(q)
      BY DEF SpawnInv
    <2>2. /\ InStdin(q)' <=> InStdin(q)
          /\ InStdout(q)' <=> InStdout(q)
          /\ ~ AtReader(q)'
      BY <1>1, <1>2 DEF InStdin, InStdout, AtReader
    <2>3. InChan(q)' => InChan(q) \/ AtReader(q)
      BY <1>2, <1>4 DEF InChan, AtReader, Holding
    <2> QED  BY <1>1, <2>1, <2>2, <2>3 DEF OnePlace, SendStill
  <1>9. ASSUME NEW q \in Req \ disturbed
        PROVE  Handed(q)'
    <2>1. Handed(q)
      BY DEF SpawnInv
    <2>2. \A k \in 1..Len(chan'[q]) : Own(chan'[q][k], q)
      BY <1>2, <1>4, <2>1 DEF Handed, t
    <2> QED  BY <1>1, <1>2, <2>1, <2>2 DEF Handed, Own, SendStill
  <1> QED  BY <1>1, <1>5, <1>6, <1>7, <1>8, <1>9 DEF SpawnInv

(* The loop ends, or a notification goes to the SSE connections. *)
LEMMA DropInv ==
    ASSUME SpawnInv, ScanFails \/ Broadcast
    PROVE  SpawnInv'
  <1>1. SendStill /\ UNCHANGED <<stdin, stdout, working, unasked, chan, disturbed>>
    BY DEF ScanFails, Broadcast, SendStill, sendVars, ctxVars, procVars
  <1>2. ~ Holding' /\ reader'.pc # "send"
    BY DEF ScanFails, Broadcast, Scanning, Holding
  <1>3. TypeOK'
    <2>1. reader' \in [pc : {"scan", "dispatch", "send", "ended"}, msg : Msg, to : Req \cup {None}]
      BY PlainType DEF ScanFails, Broadcast, Scanning
    <2>2. faults' \in Nat
      BY DEF SpawnInv, TypeOK, ScanFails, Broadcast, Fault
    <2>3. sse' \in [Conn -> [on : BOOLEAN, queue : Seq(Msg)]]
      <3>1. CASE ScanFails
        BY <3>1 DEF SpawnInv, TypeOK, ScanFails
      <3>2. CASE Broadcast
        <4>1. reader.msg \in Msg /\ \A c \in Conn : sse[c] \in [on : BOOLEAN, queue : Seq(Msg)]
          BY DEF SpawnInv, TypeOK
        <4>2. \A c \in Conn : Append(sse[c].queue, reader.msg) \in Seq(Msg)
          BY <4>1, AppendFacts
        <4>3. \A c \in Conn : [sse[c] EXCEPT !.queue = Append(@, reader.msg)]
                                 \in [on : BOOLEAN, queue : Seq(Msg)]
          BY <4>1, <4>2
        <4> QED  BY <3>2, <4>1, <4>3 DEF Broadcast
      <3> QED  BY <3>1, <3>2
    <2> QED  BY <1>1, <2>1, <2>2, <2>3 DEF SpawnInv, TypeOK, SendStill
  <1>4. SendInv' /\ PendingInv' /\ \A q \in Req : Registered(q)' <=> Registered(q)
    BY <1>1, <1>2, SendStillInv, PendingStill
  <1>5. \A q \in Req : OwnId(q) => OwnId(q)'
    BY <1>1, <1>2, <1>4 DEF OwnId, Own, SendStill
  <1>6. \A q \in Req : OnePlace(q)'
    BY <1>1, <1>2 DEF SpawnInv, OnePlace, InStdin, InStdout, AtReader, InChan, SendStill
  <1>7. \A q \in Req \ disturbed : Handed(q)'
    BY <1>1, <1>2 DEF SpawnInv, Handed, Own, SendStill
  <1> QED  BY <1>1, <1>3, <1>4, <1>5, <1>6, <1>7 DEF SpawnInv

LEMMA HandleSSEInv ==
    ASSUME SpawnInv, NEW c \in Conn, HandleSSE(c)
    PROVE  SpawnInv'
  <1>1. SendStill /\ Still /\ UNCHANGED <<unasked, disturbed, faults>>
    BY DEF HandleSSE, SendStill, Still, sendVars, ctxVars, procVars
  <1>2. sse' \in [Conn -> [on : BOOLEAN, queue : Seq(Msg)]]
    <2>1. sse \in [Conn -> [on : BOOLEAN, queue : Seq(Msg)]]
      BY DEF SpawnInv, TypeOK
    <2>2. CASE RegisterSSE(c)
      BY <2>1, <2>2 DEF RegisterSSE
    <2>3. CASE UnregisterSSE(c)
      BY <2>1, <2>3 DEF UnregisterSSE, Closed
    <2>4. CASE ForwardSSE(c)
      <3>1. Tail(sse[c].queue) \in Seq(Msg)
        BY <2>1, <2>4, TailFacts DEF ForwardSSE
      <3> QED  BY <2>1, <2>4, <3>1 DEF ForwardSSE
    <2> QED  BY <2>2, <2>3, <2>4 DEF HandleSSE
  <1>3. TypeOK'
    BY <1>1, <1>2 DEF SpawnInv, TypeOK, SendStill, Still
  <1>4. SendInv' /\ PendingInv' /\ \A q \in Req : Registered(q)' <=> Registered(q)
    BY <1>1, SendStillInv, PendingStill DEF Still
  <1>5. pc' = pc /\ got' = got
    BY <1>1 DEF SendStill
  <1> QED  BY <1>1, <1>3, <1>4, <1>5, StillPlace, StillHanded, StillOwnId DEF SpawnInv

-----------------------------------------------------------------------------

(* The inductive invariant of the gateway in spawn mode: what carries the  *)
(* id of a registered, undisturbed request is that request or its          *)
(* response, which is in one place only (Send, readLoop).                  *)
THEOREM SpawnInvariant == Spec => []SpawnInv
  <1>1. SpawnInv /\ [Next]_vars => SpawnInv'
    <2> SUFFICES ASSUME SpawnInv, [Next]_vars PROVE SpawnInv'
      OBVIOUS
    <2>1. ASSUME NEW r \in Req,
                 Register(r) \/ SendStep(r) \/ Cancel(r) \/ WriteFails(r) \/ Answer(r)
          PROVE  SpawnInv'
      BY <2>1, RegisterInv, LockInv, WriteInv, EndInv, ReceiveInv, CancelInv, AnswerInv
      DEF SendStep
    <2>2. CASE ReadStdin \/ EmitUnasked
      BY <2>2, ReadStdinInv, EmitUnaskedInv
    <2>3. CASE ReadLoop \/ ScanFails
      BY <2>3, ScanInv, LookupInv, SendToChannelInv, DropInv DEF ReadLoop
    <2>4. ASSUME NEW c \in Conn, HandleSSE(c)
          PROVE  SpawnInv'
      BY <2>4, HandleSSEInv
    <2>5. CASE UNCHANGED vars
      <3>1. SendStill /\ Still /\ UNCHANGED <<sse, disturbed, unasked, faults>>
        BY <2>5 DEF vars, SendStill, Still
      <3>2. TypeOK'
        BY <3>1 DEF SpawnInv, TypeOK, SendStill, Still
      <3>3. SendInv' /\ PendingInv' /\ \A q \in Req : Registered(q)' <=> Registered(q)
        BY <3>1, SendStillInv, PendingStill DEF Still
      <3>4. pc' = pc /\ got' = got
        BY <3>1 DEF SendStill
      <3> QED  BY <3>1, <3>2, <3>3, <3>4, StillPlace, StillHanded, StillOwnId DEF SpawnInv
    <2> QED  BY <2>1, <2>2, <2>3, <2>4, <2>5 DEF Next
  <1> QED  BY SpawnInit, <1>1, PTL DEF Spec

(* Type correctness of the gateway, among it that a response channel holds *)
(* at most one message.                                                    *)
THEOREM SpawnTypeCorrect == Spec => []TypeOK
  BY SpawnInvariant, PTL DEF SpawnInv

(* Send returns to a client the response to its own request, unless the id *)
(* was in use for something else.                                          *)
THEOREM ResponsesAlwaysOwn == Spec => []OwnWhenUndisturbed
  <1>1. SpawnInv => OwnWhenUndisturbed
    BY DEF SpawnInv, Handed, Own, OwnWhenUndisturbed
  <1> QED  BY SpawnInvariant, <1>1, PTL

(* readLoop never waits for a client that has gone away, unless its id was *)
(* used twice.                                                             *)
THEOREM ReaderNeverWaits == Spec => []ReaderNeverStuck
  <1>1. SpawnInv => ReaderNeverStuck
    <2> SUFFICES ASSUME SpawnInv, reader.pc = "send", reader.to \notin disturbed,
                        ~ ChanFree(reader.to)
                 PROVE  FALSE
      BY DEF ReaderNeverStuck
    <2>1. reader.to \in Req \ disturbed
      BY DEF SpawnInv, PendingInv
    <2>2. Handed(reader.to) /\ OnePlace(reader.to)
      BY <2>1 DEF SpawnInv
    <2>3. AtReader(reader.to)
      BY <2>2 DEF Handed, Own, AtReader, Holding
    <2>4. Len(chan[reader.to]) \in Nat /\ Len(chan[reader.to]) >= 1
      BY <2>1 DEF SpawnInv, TypeOK, ChanFree
    <2>5. InChan(reader.to)
      BY <2>2, <2>4 DEF Handed, Own, InChan
    <2> QED  BY <2>2, <2>3, <2>5 DEF OnePlace
  <1> QED  BY SpawnInvariant, <1>1, PTL
=============================================================================
